---- MODULE Spec2Model ----
(***************************************************************************)
(* Relay daemon: attach route, mux manager, attach tokens, terminal bridge,*)
(* PTY output path and session discovery, as state machines.               *)
(*                                                                         *)
(* One step of an action is one run-to-completion slice of the event loop: *)
(* the synchronous code between two awaits of real I/O (a subprocess, a    *)
(* file read, a socket event).                                             *)
(***************************************************************************)
EXTENDS Integers, Sequences, FiniteSets, TLC

(***************************************************************************)
(* Bounds of the model.                                                    *)
(***************************************************************************)
MaxReqs == 2            \* HTTP attach requests per run
MaxConns == 2           \* WebSocket connections per run
MaxTicks == 4           \* clock advances per run
TickMs == 10000          \* one clock advance, in ms
MaxSessions == 1        \* config.claude.maxSessions
MaxChunks == 4          \* chunks the PTY emits per run
MaxScans == 2           \* full scans per run
MaxFsOps == 4           \* bound on the clock of file system operations
MaxClients == 2         \* SSE connections per run
MaxEvents == 2          \* change events discovery emits per run
MaxOps == 2             \* kill, list and detail requests per run
MaxFrames == 3          \* WebSocket frames a client sends per run
MaxBeats == 6           \* firings of the heartbeat interval per run
MaxNew == 2             \* POST /api/sessions/new requests per run
MaxSecs == 5            \* seconds of discovery's timers per run
MaxRateTicks == 8       \* clock ticks per run of the rate-limit sweep
MaxAttach == 5          \* attach requests the daemon answers with a token per client run
MaxRotations == 1       \* screen-width changes per client run

(***************************************************************************)
(* Program constants.                                                      *)
(***************************************************************************)
CACHE_TTL_MS == 10000           \* manager: tmux state cache
RATE_LIMIT_MS == 5000           \* attach route: one attach per session per 5 s
TOKEN_TTL_MS == 30000           \* attach token lifetime
BACKPRESSURE_THRESHOLD == 65536 \* bridge: 64 * 1024
OUTPUT_BUFFER_MAX == 1048576    \* bridge: 1024 * 1024
CHANGE_DEBOUNCE_S == 2          \* discovery: setTimeout(..., 2000) of notifyChange
RATE_SWEEP_MS == 60000          \* attach route: interval and cutoff of the rate-limit sweep
SAVE_DEBOUNCE_S == 5            \* discovery: setTimeout(..., 5_000) of saveCache

Ids == {"a", "b"}               \* session ids of canonical UUID shape
BadId == "zz"                   \* a session-id parameter that is no UUID
ParamIds == Ids \cup {BadId}
Discovered == {"a"}             \* ids discovery holds a record for
Reqs == 1..MaxReqs
Conns == 1..MaxConns
MaxTime == TickMs * (MaxTicks + 1)

NoTime == 0                     \* Map.get(...) === undefined
NoToken == [sid |-> "", exp |-> 0, used |-> FALSE]
NoReq == [pc |-> "idle", id |-> "", snap |-> {}, satt |-> {}, existed |-> FALSE,
          probe |-> "none",     \* history: what isClaudeRunning answered (running, clear)
          spawned |-> FALSE, res |-> "", at |-> 0]
NoTerm == [cleanedUp |-> FALSE, kills |-> 0, sigkills |-> 0,
           killTimer |-> FALSE, calls |-> 0]

VARIABLES
    now,                \* Date.now()
    stopped,            \* the daemon is shutting down
    \* --- attach route (G) and mux manager (C)
    lastAttachTime,     \* routes/attach: Map sessionId -> time of last admitted attach
    cachedSessions,     \* TmuxManager.cachedSessions (window names, as ids)
    cacheExpiry,        \* TmuxManager.cacheExpiry
    lockHolder,         \* SessionLock: id -> request holding the lock, 0 if free
    windows,            \* tmux server: the claude-<id> windows that exist
    req,                \* per HTTP attach request: position and locals
    dupSpawn,           \* history: new-session was run for a window that existed
    \* --- attach tokens (A)
    tokens,             \* AttachTokens map; the token minted by request r is r
    consumed,           \* history: successful consumes per token
    presented,          \* history: the token each WebSocket open presented, 0 if none
    \* --- terminal bridge (F)
    conn,               \* per WebSocket connection: position in TerminalBridge.attach
    ws,                 \* ws.readyState
    terminals,          \* TerminalBridge.terminals: id -> terminal (its connection), 0 if none
    term,               \* per ActiveTerminal: cleanedUp, and history of signals sent
    pty,                \* the PTY child of each terminal: none, alive, exited
    \* --- PTY output path of one terminal (closure state of TerminalBridge.attach)
    out,
    \* --- session discovery (D)
    disc,
    \* --- GET /api/sessions/stream: the SSE clients and the change listener
    sse,
    \* --- kill routes, GET /api/sessions and the periodic cache refresh
    ops,
    \* --- WS -> PTY input path of one terminal
    inp,
    \* --- heartbeat of one terminal
    hb,
    \* --- POST /api/sessions/new
    nsr,
    \* --- mobile client: one TerminalScreen
    cli

attachVars == <<now, stopped, lastAttachTime, cachedSessions, cacheExpiry, lockHolder,
                windows, req, dupSpawn, tokens, consumed, presented>>
bridgeVars == <<conn, ws, terminals, term, pty>>
laterVars == <<sse, ops, inp, hb, nsr, cli>>
otherVars == <<out, disc, laterVars>>
vars == <<attachVars, bridgeVars, out, disc, laterVars>>

(***************************************************************************)
(* auth.ts (not among the sources): session-id validation and the attach   *)
(* tokens, from sections 4.A and I3 of the specification.                  *)
(***************************************************************************)
\* Bug: every session-id parameter is accepted.
IsValidSessionIdLax(id) == TRUE

IsValidSessionId(id) == id \in Ids

\* Bug: consume does not look at expiresAt.
ConsumeResultNoExpiry(t, id) ==
    IF tokens[t] = NoToken THEN "Invalid"
    ELSE IF tokens[t].used THEN "AlreadyUsed"
    ELSE IF tokens[t].sid # id THEN "Mismatch"
    ELSE "ok"

\* consume(token, sessionId): lookup, checks, mark used and remove.
ConsumeResult(t, id) ==
    IF tokens[t] = NoToken THEN "Invalid"
    ELSE IF tokens[t].used THEN "AlreadyUsed"
    ELSE IF now > tokens[t].exp THEN "Expired"
    ELSE IF tokens[t].sid # id THEN "Mismatch"
    ELSE "ok"

\* Bug: a successful consume leaves the entry in the map, unmarked.
TokensAfterConsumeKept(t, id) == tokens

TokensAfterConsume(t, id) ==
    IF ConsumeResult(t, id) = "ok" THEN [tokens EXCEPT ![t] = NoToken] ELSE tokens

\* generate(sessionId): store {sessionId, expiresAt = now + 30 s, used = false}.
Generate(t, id) == [tokens EXCEPT ![t] = [sid |-> id, exp |-> now + TOKEN_TTL_MS, used |-> FALSE]]

\* The background sweep removes entries whose expiresAt has passed.
TokenSweep ==
    /\ \E t \in Reqs : tokens[t] # NoToken /\ now > tokens[t].exp
    /\ tokens' = [t \in Reqs |-> IF tokens[t] # NoToken /\ now > tokens[t].exp
                                 THEN NoToken ELSE tokens[t]]
    /\ UNCHANGED <<now, stopped, lastAttachTime, cachedSessions, cacheExpiry, lockHolder,
                   windows, req, dupSpawn, consumed, presented, bridgeVars, otherVars>>

(***************************************************************************)
(* tmux/lock.ts (not among the sources): SessionLock, from section 4.B.    *)
(***************************************************************************)
LockFree(id) == lockHolder[id] = 0
Release(id) == [lockHolder EXCEPT ![id] = 0]

(***************************************************************************)
(* TmuxManager                                                             *)
(***************************************************************************)
\* listSessions(): the cached list while Date.now() < cacheExpiry.
CacheFresh == now < cacheExpiry

\* Bug: check 3 does not look for the window of this id.
OverCapacityAnyId(list, id) == Cardinality(list) >= MaxSessions

\* attach, check 3: too many owned windows and none of them is this id's.
OverCapacity(list, id) == Cardinality(list) >= MaxSessions /\ id \notin list

\* attach, check 1: the bridge is the source of truth (hasActiveTerminal).
IsConnected(id) == terminals[id] # 0

\* session_attached of list-sessions: the windows a client is attached to,
\* i.e. those with a live "tmux attach-session" PTY of the bridge.
Attached == {i \in windows : \E c \in Conns : conn[c].id = i /\ pty[c] = "alive"}

(***************************************************************************)
(* POST /api/sessions/:id/attach                                           *)
(***************************************************************************)
Finish(r, code) ==
    [req EXCEPT ![r].pc = "done", ![r].res = code, ![r].snap = {}, ![r].satt = {}]

\* The rate-limit check and what follows it without an await: the request is
\* answered 429, or records the time and calls tmuxManager.attach, which queues
\* for the session lock.
RateLimited(id) == lastAttachTime[id] # NoTime /\ now - lastAttachTime[id] < RATE_LIMIT_MS

\* Bug: an admitted request does not record its time.
RateLimitStepUnrecorded(r, id) ==
    /\ req' = [req EXCEPT ![r] = [@ EXCEPT !.pc = IF RateLimited(id) THEN "done" ELSE "lock",
                                         !.res = IF RateLimited(id) THEN "429" ELSE "",
                                         !.id = id, !.snap = {}, !.at = now]]
    /\ UNCHANGED lastAttachTime

RateLimitStep(r, id) ==
    IF RateLimited(id)
    THEN /\ req' = [req EXCEPT ![r] = [@ EXCEPT !.pc = "done", !.res = "429", !.id = id, !.snap = {},
                                         !.at = now]]
         /\ UNCHANGED lastAttachTime
    ELSE /\ req' = [req EXCEPT ![r] = [@ EXCEPT !.pc = "lock", !.id = id, !.snap = {},
                                         !.at = now]]
         /\ lastAttachTime' = [lastAttachTime EXCEPT ![id] = now]

\* A request arrives: validation, the existence check; for an id discovery
\* does not know, the window list is consulted (cached, or a list-sessions run).
Arrive(r, id) ==
    /\ ~stopped
    /\ req[r].pc = "idle"
    /\ r > 1 => req[r - 1].pc # "idle"
    /\ IF ~IsValidSessionId(id)
       THEN /\ req' = [req EXCEPT ![r] = [@ EXCEPT !.pc = "done", !.res = "400", !.id = id]]
            /\ UNCHANGED lastAttachTime
       ELSE IF id \in Discovered
       THEN RateLimitStep(r, id)
       ELSE IF CacheFresh
       THEN IF id \in cachedSessions
            THEN RateLimitStep(r, id)
            ELSE /\ req' = [req EXCEPT ![r] = [@ EXCEPT !.pc = "done", !.res = "404", !.id = id]]
                 /\ UNCHANGED lastAttachTime
       ELSE /\ req' = [req EXCEPT ![r] = [@ EXCEPT !.pc = "exist", !.id = id, !.snap = windows,
                                                   !.satt = Attached]]
            /\ UNCHANGED lastAttachTime
    /\ UNCHANGED <<now, stopped, cachedSessions, cacheExpiry, lockHolder, windows, dupSpawn,
                   tokens, consumed, presented, bridgeVars, otherVars>>

\* refreshCache() of the existence check completes.
ExistDone(r) ==
    /\ req[r].pc = "exist"
    /\ cachedSessions' = req[r].snap
    /\ ops' = [ops EXCEPT !.catt = req[r].satt]
    /\ cacheExpiry' = now + CACHE_TTL_MS
    /\ IF req[r].id \in req[r].snap
       THEN RateLimitStep(r, req[r].id)
       ELSE /\ req' = Finish(r, "404")
            /\ UNCHANGED lastAttachTime
    /\ UNCHANGED <<now, stopped, lockHolder, windows, dupSpawn, tokens, consumed, presented, bridgeVars,
                   out, disc, sse, inp, hb, nsr, cli>>

(***************************************************************************)
(* TmuxManager.attach: the body run under the session lock                 *)
(***************************************************************************)
\* A SessionConflictError leaves the body: the lock is released and the route
\* answers 409 with the error's code.
Conflict(r, code) ==
    /\ req' = Finish(r, code)
    /\ lockHolder' = Release(req[r].id)

\* Check 3 on a window list, then the has-session probe of check 4 is started.
CapacityStep(r, list) ==
    IF OverCapacity(list, req[r].id)
    THEN Conflict(r, "MAX_SESSIONS")
    ELSE /\ req' = [req EXCEPT ![r].pc = "has", ![r].snap = {}, ![r].satt = {}]
         /\ UNCHANGED lockHolder

\* Bug: the body of attach is not wrapped in lock.acquire.
AttachEnterUnlocked(r) ==
    /\ req[r].pc = "lock"
    /\ req' = IF IsConnected(req[r].id) THEN Finish(r, "SESSION_ATTACHED")
              ELSE [req EXCEPT ![r].pc = "probe"]
    /\ UNCHANGED <<now, stopped, lastAttachTime, cachedSessions, cacheExpiry, windows,
                   lockHolder, dupSpawn, tokens, consumed, presented, bridgeVars, otherVars>>

\* Bug: check 1 is missing, a connected session goes on to the probes.
AttachEnterNoLiveness(r) ==
    /\ req[r].pc = "lock"
    /\ LockFree(req[r].id)
    /\ req' = [req EXCEPT ![r].pc = "probe"]
    /\ lockHolder' = [lockHolder EXCEPT ![req[r].id] = r]
    /\ UNCHANGED <<now, stopped, lastAttachTime, cachedSessions, cacheExpiry, windows,
                   dupSpawn, tokens, consumed, presented, bridgeVars, otherVars>>

\* lock.acquire grants the lock; check 1 runs and the process probe is started.
AttachEnter(r) ==
    /\ req[r].pc = "lock"
    /\ LockFree(req[r].id)
    /\ IF IsConnected(req[r].id)
       THEN /\ req' = Finish(r, "SESSION_ATTACHED")
            /\ UNCHANGED lockHolder
       ELSE /\ req' = [req EXCEPT ![r].pc = "probe"]
            /\ lockHolder' = [lockHolder EXCEPT ![req[r].id] = r]
    /\ UNCHANGED <<now, stopped, lastAttachTime, cachedSessions, cacheExpiry, windows,
                   dupSpawn, tokens, consumed, presented, bridgeVars, otherVars>>

\* Bug: the capacity check on a fresh cache comes before check 2.
ProbeDoneCapacityFirst(r, running) ==
    /\ req[r].pc = "probe"
    /\ IF CacheFresh /\ OverCapacity(cachedSessions, req[r].id)
       THEN /\ req' = [Finish(r, "MAX_SESSIONS")
                          EXCEPT ![r].probe = IF running THEN "running" ELSE "clear"]
            /\ lockHolder' = Release(req[r].id)
       ELSE IF running
       THEN /\ req' = [Finish(r, "SESSION_CONFLICT") EXCEPT ![r].probe = "running"]
            /\ lockHolder' = Release(req[r].id)
       ELSE /\ req' = [req EXCEPT ![r].pc = "list", ![r].snap = windows, ![r].satt = Attached,
                                  ![r].probe = "clear"]
            /\ UNCHANGED lockHolder
    /\ UNCHANGED <<now, stopped, lastAttachTime, cachedSessions, cacheExpiry, windows,
                   dupSpawn, tokens, consumed, presented, bridgeVars, otherVars>>

\* isClaudeRunning (pgrep) returns; check 2, then listSessions of check 3.
ProbeDone(r, running) ==
    /\ req[r].pc = "probe"
    /\ IF running
       THEN /\ req' = [Finish(r, "SESSION_CONFLICT") EXCEPT ![r].probe = "running"]
            /\ lockHolder' = Release(req[r].id)
       ELSE IF CacheFresh
       THEN IF OverCapacity(cachedSessions, req[r].id)
            THEN /\ req' = [Finish(r, "MAX_SESSIONS") EXCEPT ![r].probe = "clear"]
                 /\ lockHolder' = Release(req[r].id)
            ELSE /\ req' = [req EXCEPT ![r].pc = "has", ![r].snap = {}, ![r].satt = {},
                                       ![r].probe = "clear"]
                 /\ UNCHANGED lockHolder
       ELSE /\ req' = [req EXCEPT ![r].pc = "list", ![r].snap = windows, ![r].satt = Attached,
                                  ![r].probe = "clear"]
            /\ UNCHANGED lockHolder
    /\ UNCHANGED <<now, stopped, lastAttachTime, cachedSessions, cacheExpiry, windows,
                   dupSpawn, tokens, consumed, presented, bridgeVars, otherVars>>

\* refreshCache() of check 3 completes.
ListDone(r) ==
    /\ req[r].pc = "list"
    /\ cachedSessions' = req[r].snap
    /\ ops' = [ops EXCEPT !.catt = req[r].satt]
    /\ cacheExpiry' = now + CACHE_TTL_MS
    /\ CapacityStep(r, req[r].snap)
    /\ UNCHANGED <<now, stopped, lastAttachTime, windows, dupSpawn, tokens, consumed,
                   presented, bridgeVars, out, disc, sse, inp, hb, nsr, cli>>

\* hasSession (tmux has-session) returns; check 4: reattach, or start new-session.
HasDone(r) ==
    /\ req[r].pc = "has"
    /\ IF req[r].id \in windows
       THEN /\ req' = [req EXCEPT ![r].pc = "mint", ![r].existed = TRUE]
            /\ lockHolder' = Release(req[r].id)
       ELSE /\ req' = [req EXCEPT ![r].pc = "create"]
            /\ UNCHANGED lockHolder
    /\ UNCHANGED <<now, stopped, lastAttachTime, cachedSessions, cacheExpiry, windows,
                   dupSpawn, tokens, consumed, presented, bridgeVars, otherVars>>

\* createSession: tmux new-session returns. It fails on a duplicate name and may
\* fail for reasons of its own (ok = FALSE); the error leaves attach and the
\* route as a 5xx. On success the cache is invalidated.
CreateDone(r, ok) ==
    /\ req[r].pc = "create"
    /\ dupSpawn' = (dupSpawn \/ req[r].id \in windows)
    /\ lockHolder' = Release(req[r].id)
    /\ IF ok /\ req[r].id \notin windows
       THEN /\ windows' = windows \cup {req[r].id}
            /\ cacheExpiry' = 0
            /\ req' = [req EXCEPT ![r].pc = "mint", ![r].existed = FALSE, ![r].spawned = TRUE]
       ELSE /\ req' = Finish(r, "500")
            /\ UNCHANGED <<windows, cacheExpiry>>
    /\ UNCHANGED <<now, stopped, lastAttachTime, cachedSessions, tokens, consumed,
                   presented, bridgeVars, otherVars>>

\* Back in the route, after tmuxManager.attach has returned: the token is minted
\* and the 200 reply is sent.
Mint(r) ==
    /\ req[r].pc = "mint"
    /\ tokens' = Generate(r, req[r].id)
    /\ req' = Finish(r, "200")
    /\ UNCHANGED <<now, stopped, lastAttachTime, cachedSessions, cacheExpiry, lockHolder,
                   windows, dupSpawn, consumed, presented, bridgeVars, otherVars>>

Tick ==
    /\ now + TickMs <= MaxTime
    /\ now' = now + TickMs
    /\ UNCHANGED <<stopped, lastAttachTime, cachedSessions, cacheExpiry, lockHolder,
                   windows, req, dupSpawn, tokens, consumed, presented, bridgeVars, otherVars>>

\* Bug: the sweep deletes every entry.
RateSweepAll ==
    /\ \E i \in Ids : lastAttachTime[i] # NoTime
    /\ lastAttachTime' = [i \in Ids |-> NoTime]
    /\ UNCHANGED <<now, stopped, cachedSessions, cacheExpiry, lockHolder,
                   windows, req, dupSpawn, tokens, consumed, presented, bridgeVars, otherVars>>

\* The rate-limit cleanup interval fires: entries older than 60 s are deleted.
RateSweep ==
    /\ \E i \in Ids : lastAttachTime[i] # NoTime
    /\ lastAttachTime' = [i \in Ids |->
                             IF lastAttachTime[i] # NoTime /\ lastAttachTime[i] < now - RATE_SWEEP_MS
                             THEN NoTime ELSE lastAttachTime[i]]
    /\ UNCHANGED <<now, stopped, cachedSessions, cacheExpiry, lockHolder,
                   windows, req, dupSpawn, tokens, consumed, presented, bridgeVars, otherVars>>

\* The clock of the runs that include the sweep.
RateTick ==
    /\ now + TickMs <= TickMs * (MaxRateTicks + 1)
    /\ now' = now + TickMs
    /\ UNCHANGED <<stopped, lastAttachTime, cachedSessions, cacheExpiry, lockHolder,
                   windows, req, dupSpawn, tokens, consumed, presented, bridgeVars, otherVars>>

(***************************************************************************)
(* TerminalBridge                                                          *)
(***************************************************************************)
WsDead(c) == ws[c] \in {"closing", "closed"}

\* Bug: the guard does not compare the terminal with the map's entry.
CleanupSkippedFlagOnly(c) == term[c].cleanedUp

\* cleanupTerminal's guard: already cleaned up, or no longer the map's entry.
CleanupSkipped(c) == term[c].cleanedUp \/ terminals[conn[c].id] # c

\* cleanupTerminal(sessionId, terminal) invoked once for every terminal of S
\* (the terminals of S have distinct session ids, or are one terminal). The
\* SIGKILL timer stays armed only if the child is still alive after kill().
CleanupTerminal(S) ==
    /\ term' = [c \in Conns |->
                  IF c \notin S THEN term[c]
                  ELSE IF CleanupSkipped(c) THEN [term[c] EXCEPT !.calls = @ + 1]
                  ELSE [term[c] EXCEPT !.cleanedUp = TRUE, !.kills = @ + 1,
                                       !.killTimer = (pty'[c] = "alive"),
                                       !.calls = @ + 1]]
    /\ terminals' = [i \in Ids |->
                  IF \E c \in S : conn[c].id = i /\ ~CleanupSkipped(c)
                  THEN 0 ELSE terminals[i]]

\* Bug: a socket in the closing handshake still counts as a live connection.
BridgeAttachEnterClosedOnly(c, id) ==
    /\ UNCHANGED pty
    /\ IF terminals[id] # 0 /\ ws[terminals[id]] # "closed"
       THEN /\ conn' = [conn EXCEPT ![c] = [pc |-> "rej4409", id |-> id]]
            /\ ws' = [ws EXCEPT ![c] = "closing"]
            /\ UNCHANGED <<term, terminals>>
       ELSE /\ conn' = [conn EXCEPT ![c] = [pc |-> "spawning", id |-> id]]
            /\ ws' = [ws EXCEPT ![c] = "open"]
            /\ IF terminals[id] # 0
               THEN CleanupTerminal({terminals[id]})
               ELSE UNCHANGED <<term, terminals>>

\* TerminalBridge.attach up to its first await: the existing-entry rule.
BridgeAttachEnter(c, id) ==
    /\ UNCHANGED pty
    /\ IF terminals[id] # 0 /\ ~WsDead(terminals[id])
       THEN /\ conn' = [conn EXCEPT ![c] = [pc |-> "rej4409", id |-> id]]
            /\ ws' = [ws EXCEPT ![c] = "closing"]
            /\ UNCHANGED <<term, terminals>>
       ELSE /\ conn' = [conn EXCEPT ![c] = [pc |-> "spawning", id |-> id]]
            /\ ws' = [ws EXCEPT ![c] = "open"]
            /\ IF terminals[id] # 0
               THEN CleanupTerminal({terminals[id]})
               ELSE UNCHANGED <<term, terminals>>

\* WS /terminal/:id?token= (the upgrade route is not among the sources; section
\* 4.G): the one-shot token is consumed and the socket handed to the bridge.
WsOpen(c, id, t) ==
    /\ ~stopped
    /\ conn[c].pc = "idle"
    /\ c > 1 => conn[c - 1].pc # "idle"
    /\ tokens' = TokensAfterConsume(t, id)
    /\ presented' = [presented EXCEPT ![c] = t]
    /\ IF ConsumeResult(t, id) = "ok"
       THEN /\ consumed' = [consumed EXCEPT ![t] = @ + 1]
            /\ BridgeAttachEnter(c, id)
       ELSE /\ consumed' = consumed
            /\ conn' = [conn EXCEPT ![c] = [pc |-> "rejAuth", id |-> id]]
            /\ ws' = [ws EXCEPT ![c] = "closing"]
            /\ UNCHANGED <<term, terminals, pty>>
    /\ UNCHANGED <<now, stopped, lastAttachTime, cachedSessions, cacheExpiry, lockHolder,
                   windows, req, dupSpawn, otherVars>>

\* After loadPty and the set-option run: pty.spawn, terminals.set, handlers.
BridgeSpawn(c) ==
    /\ conn[c].pc = "spawning"
    /\ conn' = [conn EXCEPT ![c].pc = "attached"]
    /\ pty' = [pty EXCEPT ![c] = "alive"]
    /\ terminals' = [terminals EXCEPT ![conn[c].id] = c]
    /\ UNCHANGED <<ws, term, attachVars, otherVars>>

\* The peer starts the closing handshake.
WsClosing(c) ==
    /\ ws[c] = "open"
    /\ conn[c].pc \in {"spawning", "attached"}
    /\ ws' = [ws EXCEPT ![c] = "closing"]
    /\ UNCHANGED <<conn, terminals, term, pty, attachVars, otherVars>>

\* The socket is closed; ws.on("close") runs if the handlers are installed.
WsClosed(c) ==
    /\ ws[c] \in {"open", "closing"}
    /\ conn[c].pc \in {"spawning", "attached"}
    /\ ws' = [ws EXCEPT ![c] = "closed"]
    /\ UNCHANGED pty
    /\ IF conn[c].pc = "attached"
       THEN CleanupTerminal({c})
       ELSE UNCHANGED <<term, terminals>>
    /\ UNCHANGED <<conn, attachVars, otherVars>>

\* ws.on("error"): the socket fails and is being torn down.
WsError(c) ==
    /\ ws[c] = "open"
    /\ conn[c].pc = "attached"
    /\ ws' = [ws EXCEPT ![c] = "closing"]
    /\ UNCHANGED pty
    /\ CleanupTerminal({c})
    /\ UNCHANGED <<conn, attachVars, otherVars>>

\* ptyProcess.onExit: the child is gone; cleanup, then ws.close(1000) if open.
PtyExit(c) ==
    /\ pty[c] = "alive"
    /\ pty' = [pty EXCEPT ![c] = "exited"]
    /\ CleanupTerminal({c})
    /\ ws' = [ws EXCEPT ![c] = IF @ = "open" THEN "closing" ELSE @]
    /\ UNCHANGED <<conn, attachVars, otherVars>>

\* The 5 s timer of cleanupTerminal: SIGKILL if the child is still alive.
Escalate(c) ==
    /\ term[c].killTimer
    /\ term' = [term EXCEPT ![c].killTimer = FALSE,
                            ![c].sigkills = IF pty[c] = "alive" THEN @ + 1 ELSE @]
    /\ UNCHANGED <<conn, ws, terminals, pty, attachVars, otherVars>>

Orphans == {terminals[i] : i \in {j \in Ids : terminals[j] # 0 /\ WsDead(terminals[j])}}

\* reapOrphans(), every 60 s.
ReapOrphans ==
    /\ Orphans # {}
    /\ UNCHANGED pty
    /\ CleanupTerminal(Orphans)
    /\ UNCHANGED <<conn, ws, attachVars, otherVars>>

\* stop(): cleanup of every entry.
BridgeStop ==
    /\ ~stopped
    /\ stopped' = TRUE
    /\ UNCHANGED pty
    /\ CleanupTerminal({terminals[i] : i \in {j \in Ids : terminals[j] # 0}})
    /\ UNCHANGED <<now, lastAttachTime, cachedSessions, cacheExpiry, lockHolder,
                   windows, req, dupSpawn, tokens, consumed, presented, conn, ws,
                   otherVars>>

\* TerminalBridge.attach called for an authenticated socket.
BridgeAttach(c, id) ==
    /\ ~stopped
    /\ conn[c].pc = "idle"
    /\ c > 1 => conn[c - 1].pc # "idle"
    /\ BridgeAttachEnter(c, id)
    /\ UNCHANGED <<attachVars, otherVars>>

(***************************************************************************)
(* TerminalBridge.attach, PTY -> WS: the closure state of one terminal.    *)
(* A chunk is [n |-> its number in the order the PTY produced it,          *)
(* len |-> its length in bytes].                                           *)
(***************************************************************************)
ChunkSizes == {OUTPUT_BUFFER_MAX \div 4, OUTPUT_BUFFER_MAX \div 2 + 1, OUTPUT_BUFFER_MAX + 1}

RECURSIVE SumLen(_)
SumLen(q) == IF q = <<>> THEN 0 ELSE Head(q).len + SumLen(Tail(q))

Numbers(q) == [i \in 1..Len(q) |-> q[i].n]

InitialOut ==
    [flushDone |-> FALSE,       \* initialFlushDone
     buf |-> <<>>,              \* outputBuffer
     size |-> 0,                \* outputBufferSize
     timer |-> FALSE,           \* batchTimer is set
     timers |-> 0,              \* timeouts of flushOutput set, not yet fired or cleared
     ws |-> "open",             \* ws.readyState
     buffered |-> 0,            \* ws.bufferedAmount
     pty |-> "alive",
     sent |-> <<>>,             \* history: the chunks sent on the socket, in order
     log |-> <<>>,              \* history: the chunks the PTY produced
     suppressed |-> {},         \* history: numbers of the chunks onData discarded at once
     evicted |-> {},            \* history: numbers of the chunks shifted out of the buffer
     needless |-> FALSE,        \* history: a shift happened although the chunk fitted
     deferred |-> FALSE,        \* history: a flush was put off by backpressure
     hungUp |-> FALSE]          \* history: the socket closed without the server closing it

\* Bug: flushOutput does not look at ws.bufferedAmount.
FlushOutputUnthrottled(o) ==
    IF o.buf = <<>> THEN [o EXCEPT !.timer = FALSE]
    ELSE IF o.ws # "open" THEN [o EXCEPT !.timer = FALSE]
    ELSE [o EXCEPT !.timer = FALSE, !.buf = <<>>, !.size = 0,
                   !.sent = @ \o Numbers(o.buf), !.buffered = @ + SumLen(o.buf)]

\* flushOutput()
FlushOutput(o) ==
    IF o.buf = <<>> THEN [o EXCEPT !.timer = FALSE]
    ELSE IF o.ws # "open" THEN [o EXCEPT !.timer = FALSE]
    ELSE IF o.buffered > BACKPRESSURE_THRESHOLD
    THEN [o EXCEPT !.timer = TRUE, !.timers = @ + 1, !.deferred = TRUE]
    ELSE [o EXCEPT !.timer = FALSE, !.buf = <<>>, !.size = 0,
                   !.sent = @ \o Numbers(o.buf), !.buffered = @ + SumLen(o.buf)]

\* The eviction loop of onData: shift while the new chunk does not fit.
RECURSIVE Evict(_, _, _)
Evict(q, size, len) ==
    IF size + len > OUTPUT_BUFFER_MAX /\ q # <<>>
    THEN Evict(Tail(q), size - Head(q).len, len)
    ELSE [buf |-> q, size |-> size]

\* ptyProcess.onData(data), data of len bytes
OnData(o, len) ==
    LET k == Len(o.log) + 1
        chunk == [n |-> k, len |-> len]
        kept == Evict(o.buf, o.size, len)
        gone == {o.buf[i].n : i \in 1..Len(o.buf)} \ {kept.buf[i].n : i \in 1..Len(kept.buf)}
    IN  IF ~o.flushDone
        THEN [o EXCEPT !.log = Append(@, chunk), !.suppressed = @ \cup {k}]
        ELSE [o EXCEPT !.log = Append(@, chunk),
                       !.buf = Append(kept.buf, chunk),
                       !.size = kept.size + len,
                       !.timer = TRUE,
                       !.timers = IF o.timer THEN @ ELSE @ + 1,
                       !.evicted = @ \cup gone,
                       !.needless = @ \/ (gone # {} /\ o.size + len <= OUTPUT_BUFFER_MAX)]

outRest == <<attachVars, bridgeVars, disc, laterVars>>

\* The PTY emits a chunk.
OutData(len) ==
    /\ out.pty = "alive"
    /\ Len(out.log) < MaxChunks
    /\ out' = OnData(out, len)
    /\ UNCHANGED outRest

\* initialFlushTimer fires, 500 ms after the spawn.
OutInitialFlush ==
    /\ ~out.flushDone
    /\ out.pty = "alive"
    /\ out' = [out EXCEPT !.flushDone = TRUE]
    /\ UNCHANGED outRest

\* batchTimer fires.
OutBatchTimer ==
    /\ out.timers > 0
    /\ out' = FlushOutput([out EXCEPT !.timers = @ - 1])
    /\ UNCHANGED outRest

\* The socket has written its queue to the network.
OutDrain ==
    /\ out.buffered > 0
    /\ out' = [out EXCEPT !.buffered = 0]
    /\ UNCHANGED outRest

\* ws.on("close"): clearBatchTimer, cleanupTerminal.
OutWsClose ==
    /\ out.ws \in {"open", "closing"}
    /\ out' = [out EXCEPT !.ws = "closed", !.timer = FALSE,
                          !.timers = IF out.timer THEN @ - 1 ELSE @,
                          !.hungUp = @ \/ out.ws = "open"]
    /\ UNCHANGED outRest

\* ptyProcess.onExit: clear the timers, flushOutput, cleanup, ws.close(1000).
OutPtyExit ==
    /\ out.pty = "alive"
    /\ out' = [FlushOutput([out EXCEPT !.pty = "exited", !.timer = FALSE,
                                       !.timers = IF out.timer THEN @ - 1 ELSE @])
                 EXCEPT !.ws = IF @ = "open" THEN "closing" ELSE @]
    /\ UNCHANGED outRest

(***************************************************************************)
(* The attach path: HTTP attach requests, WebSocket opens, the bridge.     *)
(***************************************************************************)
(***************************************************************************)
(* registerStreamRoutes: GET /api/sessions/stream and the listener of      *)
(* discovery's "change" event; SessionDiscovery.notifyChange.              *)
(* A payload is named by the event it was built for, 0 for the initial     *)
(* snapshot of a connection.                                               *)
(***************************************************************************)
Clients == 1..MaxClients
Events == 1..MaxEvents

InitialSse ==
    [timer |-> FALSE,                       \* changeDebounceTimer is set
     emitted |-> 0,                         \* "change" events emitted so far
     clients |-> {},                        \* the set clients
     st |-> [c \in Clients |-> "none"],     \* none, snapshot (initial listSessions pending), open, closed
     pushes |-> {},                         \* events whose listSessions promise is pending
     recv |-> [c \in Clients |-> <<>>],     \* history: payloads written to the open response
     present |-> [e \in Events |-> {}],     \* history: clients in the set when the event was emitted
     done |-> {}]                           \* history: events whose listener has finished

sseRest == <<attachVars, bridgeVars, out, disc, ops, inp, hb, nsr, cli>>

\* reply.raw.write(payload) on every client of set S; a response whose
\* connection is gone takes no payload.
Written(recv, S, e) ==
    [c \in Clients |-> IF c \in S /\ sse.st[c] # "closed" THEN Append(recv[c], e) ELSE recv[c]]

\* Bug: the listener writes only to the clients whose initial snapshot was sent.
PushTargetsOpen == {c \in sse.clients : sse.st[c] = "open"}

\* The clients the listener writes to: all of the set.
PushTargets == sse.clients

\* notifyChange(): the 2 s timer is set; a call while it is set restarts it.
SseNotify ==
    /\ ~sse.timer
    /\ sse.emitted < MaxEvents
    /\ sse' = [sse EXCEPT !.timer = TRUE]
    /\ UNCHANGED sseRest

\* The debounce timer fires: emit("change"); the listener returns if there is
\* no client, else starts registry.listSessions().
SseEmit ==
    /\ sse.timer
    /\ LET e == sse.emitted + 1
       IN  sse' = [sse EXCEPT !.timer = FALSE,
                              !.emitted = e,
                              !.present[e] = sse.clients,
                              !.pushes = IF sse.clients = {} THEN @ ELSE @ \cup {e},
                              !.done = IF sse.clients = {} THEN @ \cup {e} ELSE @]
    /\ UNCHANGED sseRest

\* listSessions() of the listener resolves: the payload is written to every
\* client.
SsePush(e) ==
    /\ e \in sse.pushes
    /\ sse' = [sse EXCEPT !.pushes = @ \ {e},
                          !.done = @ \cup {e},
                          !.recv = Written(@, PushTargets, e)]
    /\ UNCHANGED sseRest

\* GET /api/sessions/stream: headers, clients.add, listSessions() started.
SseConnect(c) ==
    /\ sse.st[c] = "none"
    /\ c > 1 => sse.st[c - 1] # "none"
    /\ sse' = [sse EXCEPT !.st[c] = "snapshot", !.clients = @ \cup {c}]
    /\ UNCHANGED sseRest

\* listSessions() of the handler resolves: the initial snapshot is written,
\* the keep-alive interval and the close handler are installed.
SseSnapshot(c) ==
    /\ sse.st[c] = "snapshot"
    /\ sse' = [sse EXCEPT !.st[c] = "open", !.recv = Written(@, {c}, 0)]
    /\ UNCHANGED sseRest

\* The client goes away. request.raw.on("close") deletes it from the set if
\* the handler is installed already.
SseDisconnect(c) ==
    /\ sse.st[c] \in {"snapshot", "open"}
    /\ sse' = [sse EXCEPT !.st[c] = "closed",
                          !.clients = IF sse.st[c] = "open" THEN @ \ {c} ELSE @]
    /\ UNCHANGED sseRest

(***************************************************************************)
(* TerminalBridge.attach, WS -> PTY: the message handler of one terminal.  *)
(* A binary payload is a sequence of bytes. The payloads a client sends    *)
(* are built from ASCII bytes, two-byte lead bytes, continuation bytes and *)
(* the byte 0xFF, which no UTF-8 text contains.                            *)
(***************************************************************************)
BinPayloads == {<<65>>, <<195, 169>>, <<195>>, <<169>>, <<65, 255>>}

\* Buffer.toString("utf-8"): the code points of the text; every byte that
\* does not belong to a well-formed sequence becomes U+FFFD.
RECURSIVE Utf8Decode(_)
Utf8Decode(b) ==
    IF b = <<>> THEN <<>>
    ELSE IF b[1] < 128 THEN <<b[1]>> \o Utf8Decode(Tail(b))
    ELSE IF b[1] \in 194..223 /\ Len(b) >= 2 /\ b[2] \in 128..191
    THEN <<(b[1] - 192) * 64 + (b[2] - 128)>> \o Utf8Decode(Tail(Tail(b)))
    ELSE <<65533>> \o Utf8Decode(Tail(b))

\* pty.write(string): the bytes the PTY receives for a string.
RECURSIVE Utf8Encode(_)
Utf8Encode(cps) ==
    IF cps = <<>> THEN <<>>
    ELSE LET cp == Head(cps) IN
         (IF cp < 128 THEN <<cp>>
          ELSE IF cp < 2048 THEN <<192 + (cp \div 64), 128 + (cp % 64)>>
          ELSE <<224 + (cp \div 4096), 128 + ((cp \div 64) % 64), 128 + (cp % 64)>>)
         \o Utf8Encode(Tail(cps))

\* The text of a text frame, by what JSON.parse makes of it: a syntax
\* error, null, or an object with a type and possibly cols and rows.
JsonError == [valid |-> FALSE, null |-> FALSE, type |-> "",
              hasCols |-> FALSE, cols |-> 0, hasRows |-> FALSE, rows |-> 0]
JsonNull == [JsonError EXCEPT !.valid = TRUE, !.null = TRUE]
JsonObject(type, hasCols, cols, hasRows, rows) ==
    [valid |-> TRUE, null |-> FALSE, type |-> type,
     hasCols |-> hasCols, cols |-> cols, hasRows |-> hasRows, rows |-> rows]
Texts ==
    {JsonError, JsonNull,
     JsonObject("input", FALSE, 0, FALSE, 0),
     JsonObject("input", TRUE, 120, TRUE, 40),
     JsonObject("resize", FALSE, 0, FALSE, 0),
     JsonObject("resize", TRUE, 120, FALSE, 0),
     JsonObject("resize", TRUE, 0, TRUE, 40),
     JsonObject("resize", TRUE, 120, TRUE, 40),
     JsonObject("resize", TRUE, 80, TRUE, 24)}

\* msg.type === "resize" && msg.cols && msg.rows; reading msg.type of null
\* throws into the catch block.
IsResize(t) ==
    /\ t.valid /\ ~t.null
    /\ t.type = "resize"
    /\ t.hasCols /\ t.cols # 0
    /\ t.hasRows /\ t.rows # 0

InitialInp ==
    [frames |-> <<>>,           \* history: the frames received, in arrival order
     written |-> <<>>,          \* the byte sequences the PTY was written, in order
     resized |-> <<>>]          \* the pty.resize calls, in order

inpRest == <<attachVars, bridgeVars, out, disc, sse, ops, hb, nsr, cli>>

\* ws.on("message") with isBinary
InBinary(p) ==
    /\ Len(inp.frames) < MaxFrames
    /\ inp' = [inp EXCEPT !.frames = Append(@, [binary |-> TRUE, data |-> p, text |-> JsonError]),
                          !.written = Append(@, Utf8Encode(Utf8Decode(p)))]
    /\ UNCHANGED inpRest

\* ws.on("message") with a text frame
InText(t) ==
    /\ Len(inp.frames) < MaxFrames
    /\ inp' = [inp EXCEPT !.frames = Append(@, [binary |-> FALSE, data |-> <<>>, text |-> t]),
                          !.resized = IF IsResize(t) THEN Append(@, <<t.cols, t.rows>>) ELSE @]
    /\ UNCHANGED inpRest

(***************************************************************************)
(* TerminalBridge.attach: the heartbeat of one terminal. The interval      *)
(* fires every wsHeartbeat seconds, the first time wsHeartbeat seconds     *)
(* after attach has installed it.                                          *)
(***************************************************************************)
wsHeartbeat == 30               \* config.rateLimit.wsHeartbeat, in seconds
wsMaxMissedPongs == 2           \* config.rateLimit.wsMaxMissedPongs

InitialHb ==
    [missedPongs |-> 0,
     max |-> wsMaxMissedPongs,  \* the configured maximum of missed pongs
     timer |-> TRUE,            \* heartbeatInterval is set
     ws |-> "open",             \* open, closing, closed, or terminated by the heartbeat
     beats |-> 0,               \* history: firings of the interval
     pings |-> 0,               \* history: pings sent
     pongs |-> 0,               \* history: pongs received
     overdue |-> FALSE]         \* history: the interval fired with a ping still unanswered

hbRest == <<attachVars, bridgeVars, out, disc, sse, ops, inp, nsr, cli>>

\* The heartbeat interval fires.
HbBeat ==
    /\ hb.timer
    /\ hb.beats < MaxBeats
    /\ LET h == [hb EXCEPT !.beats = @ + 1,
                           !.overdue = @ \/ (hb.ws = "open" /\ hb.pongs < hb.pings)]
       IN  hb' = IF hb.ws # "open"
                 THEN [h EXCEPT !.timer = FALSE]
                 ELSE IF hb.missedPongs + 1 > hb.max
                 THEN [h EXCEPT !.missedPongs = @ + 1, !.timer = FALSE, !.ws = "terminated"]
                 ELSE [h EXCEPT !.missedPongs = @ + 1, !.pings = @ + 1]
    /\ UNCHANGED hbRest

\* ws.on("pong"): the client answers a ping.
HbPong ==
    /\ hb.ws = "open"
    /\ hb.pongs < hb.pings
    /\ hb' = [hb EXCEPT !.missedPongs = 0, !.pongs = @ + 1]
    /\ UNCHANGED hbRest

\* The peer starts the closing handshake.
HbClosing ==
    /\ hb.ws = "open"
    /\ hb' = [hb EXCEPT !.ws = "closing"]
    /\ UNCHANGED hbRest

\* ws.on("close"): the interval is cleared.
HbClose ==
    /\ hb.ws \in {"open", "closing"}
    /\ hb' = [hb EXCEPT !.ws = "closed", !.timer = FALSE]
    /\ UNCHANGED hbRest

(***************************************************************************)
(* registerNewSessionRoutes: POST /api/sessions/new, and                   *)
(* TmuxManager.createNew. A path is the sequence of its segments; the      *)
(* request body gives a projectPath or none.                               *)
(***************************************************************************)
News == 1..MaxNew
\* crypto.randomUUID(): a fresh id for every request
NewIds == [n \in News |-> <<"n1", "n2", "n3", "n4">>[n]]

RootDirs == {<<"home", "code">>}                \* config.projectDirs, resolved
Directories == {<<>>, <<"home">>, <<"home", "code">>, <<"home", "code", "app">>, <<"etc">>}
PlainFiles == {<<"home", "code", "notes">>}

NoBody == [given |-> FALSE, string |-> FALSE, path |-> <<>>]
NumberBody == [given |-> TRUE, string |-> FALSE, path |-> <<>>]      \* {projectPath: 5}
EmptyBody == [given |-> TRUE, string |-> TRUE, path |-> <<>>]        \* {projectPath: ""}
PathBody(p) == [given |-> TRUE, string |-> TRUE, path |-> p]
Bodies ==
    {NoBody, NumberBody, EmptyBody} \cup
    {PathBody(p) : p \in {<<"home", "code">>,
                          <<"home", "code", "app">>,
                          <<"home", "code", "app", "..">>,
                          <<"home", "code", "..", "..", "etc">>,
                          <<"home", "code", "app", "..", "notes">>,
                          <<"home", "code", "gone">>,
                          <<"home">>,
                          <<"etc">>}}

\* path.resolve of an absolute path: "." is dropped, ".." removes the
\* segment before it.
RECURSIVE ResolveOnto(_, _)
ResolveOnto(done, rest) ==
    IF rest = <<>> THEN done
    ELSE IF Head(rest) = "." THEN ResolveOnto(done, Tail(rest))
    ELSE IF Head(rest) = ".."
    THEN ResolveOnto(IF done = <<>> THEN <<>> ELSE SubSeq(done, 1, Len(done) - 1), Tail(rest))
    ELSE ResolveOnto(Append(done, Head(rest)), Tail(rest))
Resolve(p) == ResolveOnto(<<>>, p)

IsPrefix(r, p) == Len(r) <= Len(p) /\ SubSeq(p, 1, Len(r)) = r

\* Bug: the path is compared with the roots as given, before resolve.
AllowedAsGiven(p) == \E root \in RootDirs : IsPrefix(root, p)

\* resolved === root || resolved.startsWith(root + "/")
Allowed(p) == \E root \in RootDirs : IsPrefix(root, Resolve(p))

\* stat(resolved) succeeds and isDirectory()
IsDirectory(p) == Resolve(p) \in Directories

NoNew == [pc |-> "idle", body |-> NoBody, snap |-> {}, satt |-> {}, res |-> "",
          token |-> ""]         \* the session id attachTokens.generate was called with
InitialNsr == [n \in News |-> NoNew]

nsrRest == <<stopped, lastAttachTime, lockHolder, req, dupSpawn, tokens, consumed, presented,
             bridgeVars, out, disc, sse, inp, hb, cli>>

NewDone(n, code) == [nsr EXCEPT ![n].pc = "done", ![n].res = code, ![n].snap = {},
                                ![n].satt = {}]

\* createNew's capacity check on a window list, then new-session is started.
NewCapacity(n, list) ==
    IF Cardinality(list) >= MaxSessions
    THEN NewDone(n, "409 MAX_SESSIONS")
    ELSE [nsr EXCEPT ![n].pc = "create", ![n].snap = {}, ![n].satt = {}]

\* The request arrives: the 400 and 403 checks, then stat is started.
NewArrive(n, body) ==
    /\ nsr[n].pc = "idle"
    /\ n > 1 => nsr[n - 1].pc # "idle"
    /\ LET b == [nsr EXCEPT ![n].body = body] IN
       nsr' = IF ~body.given \/ ~body.string \/ body = EmptyBody
              THEN [b EXCEPT ![n].pc = "done", ![n].res = "400 INVALID_PATH"]
              ELSE IF ~Allowed(body.path)
              THEN [b EXCEPT ![n].pc = "done", ![n].res = "403 FORBIDDEN"]
              ELSE [b EXCEPT ![n].pc = "stat"]
    /\ UNCHANGED <<now, cachedSessions, cacheExpiry, windows, ops, nsrRest>>

\* stat returns; createNew calls listSessions().
NewStatDone(n) ==
    /\ nsr[n].pc = "stat"
    /\ nsr' = IF ~IsDirectory(nsr[n].body.path)
              THEN NewDone(n, "404 DIR_NOT_FOUND")
              ELSE IF CacheFresh
              THEN NewCapacity(n, cachedSessions)
              ELSE [nsr EXCEPT ![n].pc = "list", ![n].snap = windows, ![n].satt = Attached]
    /\ UNCHANGED <<now, cachedSessions, cacheExpiry, windows, ops, nsrRest>>

\* refreshCache() of createNew completes.
NewListDone(n) ==
    /\ nsr[n].pc = "list"
    /\ cachedSessions' = nsr[n].snap
    /\ ops' = [ops EXCEPT !.catt = nsr[n].satt]
    /\ cacheExpiry' = now + CACHE_TTL_MS
    /\ nsr' = NewCapacity(n, nsr[n].snap)
    /\ UNCHANGED <<now, windows, nsrRest>>

\* tmux new-session returns. On success the cache is invalidated, the token
\* is minted and the route answers 200; on failure the error leaves the
\* route as a 5xx.
NewCreateDone(n, ok) ==
    /\ nsr[n].pc = "create"
    /\ IF ok
       THEN /\ windows' = windows \cup {NewIds[n]}
            /\ cacheExpiry' = 0
            /\ nsr' = [NewDone(n, "200") EXCEPT ![n].token = NewIds[n]]
       ELSE /\ nsr' = NewDone(n, "500")
            /\ UNCHANGED <<windows, cacheExpiry>>
    /\ UNCHANGED <<now, cachedSessions, ops, nsrRest>>

(***************************************************************************)
(* Mobile client: TerminalScreen of one session.  The daemon is the        *)
(* environment: an attach request is answered with a fresh token or        *)
(* fails, and a WebSocket is accepted at most once per token.  A message   *)
(* the terminal page posts is handled by onMessage in the same step.       *)
(***************************************************************************)
MAX_RECONNECT == 3
NoUrl == 0                      \* wsUrl is null
PreToken == MaxAttach + 1       \* the attachToken prop of a newly created session
UrlTokens == 1..PreToken        \* a wsUrl is named by the token it carries
CloseCodes == {1006, 4399, 4400, 4409, 4499, 4500}

IdleCli ==
    [mounted |-> FALSE,
     pre |-> FALSE,             \* the attachToken prop is given
     state |-> "connecting",
     reconnectCount |-> 0,
     wsUrl |-> NoUrl,
     attachedRef |-> FALSE,
     usedPreToken |-> FALSE,
     pending |-> 0,             \* client.attach calls awaited
     timers |-> 0,              \* reconnect timeouts pending
     width |-> 0,               \* screen-width changes so far
     ws |-> "none",             \* socket of the terminal page: none, connecting, open, closed
     issued |-> 0,              \* history: tokens received from attach requests
     reqs |-> 0,                \* history: attach requests made
     opened |-> [t \in UrlTokens |-> 0],    \* history: WebSockets opened per token
     attempts |-> 0,            \* history: automatic reconnects since the last connection
     authClosed |-> FALSE,      \* history: a close with a code in 4400..4499 was handled
     afterAuth |-> FALSE,       \* history: an attach request or a WebSocket after it
     lastCode |-> 0]            \* history: the code of the last close handled

cliRest == <<attachVars, bridgeVars, out, disc, sse, ops, inp, hb, nsr>>

\* The WebView loads terminalHtml: the page's script opens new WebSocket(wsUrl).
LoadPage(c) ==
    [c EXCEPT !.ws = "connecting", !.opened[c.wsUrl] = @ + 1,
              !.afterAuth = @ \/ c.authClosed]

\* setWsUrl(url): the WebView is mounted, or reloads for the new html.
SetWsUrl(c, t) == IF c.wsUrl = t THEN c ELSE LoadPage([c EXCEPT !.wsUrl = t])

\* setWsUrl(null): the WebView is unmounted and its page goes away.
ClearWsUrl(c) == [c EXCEPT !.wsUrl = NoUrl, !.ws = "none"]

\* doAttach() up to its await or return.
DoAttach(c) ==
    IF c.attachedRef THEN c
    ELSE IF c.pre /\ ~c.usedPreToken
    THEN SetWsUrl([c EXCEPT !.attachedRef = TRUE, !.usedPreToken = TRUE], PreToken)
    ELSE [c EXCEPT !.attachedRef = TRUE, !.pending = @ + 1, !.reqs = @ + 1,
                   !.afterAuth = @ \/ c.authClosed]

\* The screen after its mount effect has run.
MountedCli(pre) == DoAttach([IdleCli EXCEPT !.mounted = TRUE, !.pre = pre])

\* client.attach resolves with a fresh token.
CliAttachOk ==
    /\ cli.mounted
    /\ cli.pending > 0
    /\ cli.issued < MaxAttach
    /\ cli' = SetWsUrl([cli EXCEPT !.pending = @ - 1, !.issued = @ + 1], cli.issued + 1)
    /\ UNCHANGED cliRest

\* client.attach rejects.
CliAttachFail ==
    /\ cli.mounted
    /\ cli.pending > 0
    /\ cli' = [cli EXCEPT !.pending = @ - 1, !.attachedRef = FALSE, !.state = "error"]
    /\ UNCHANGED cliRest

\* ws.onopen, onMessage 'connected'.  The daemon accepts the first socket
\* that presents a token and no other.
CliWsOpen ==
    /\ cli.mounted
    /\ cli.ws = "connecting"
    /\ cli.opened[cli.wsUrl] = 1
    /\ cli' = [cli EXCEPT !.ws = "open", !.state = "attached", !.reconnectCount = 0,
                          !.attempts = 0]
    /\ UNCHANGED cliRest

AuthClass(code) == code >= 4400 /\ code < 4500

\* onMessage 'disconnected'
OnDisconnected(c, code) ==
    IF AuthClass(code)
    THEN [c EXCEPT !.state = "error", !.authClosed = TRUE, !.lastCode = code]
    ELSE IF c.reconnectCount < MAX_RECONNECT
    THEN [c EXCEPT !.state = "reconnecting", !.timers = @ + 1, !.lastCode = code]
    ELSE [c EXCEPT !.state = "disconnected", !.lastCode = code]

\* ws.onclose
CliWsClose(code) ==
    /\ cli.mounted
    /\ cli.ws \in {"connecting", "open"}
    /\ cli' = OnDisconnected([cli EXCEPT !.ws = "closed"], code)
    /\ UNCHANGED cliRest

\* ws.onerror, onMessage 'error'; the close event follows.
CliWsError ==
    /\ cli.mounted
    /\ cli.ws \in {"connecting", "open"}
    /\ cli.state # "error"
    /\ cli' = [cli EXCEPT !.state = "error"]
    /\ UNCHANGED cliRest

\* A reconnect timeout fires.
CliTimer ==
    /\ cli.mounted
    /\ cli.timers > 0
    /\ cli' = DoAttach(ClearWsUrl([cli EXCEPT !.timers = @ - 1,
                                              !.reconnectCount = @ + 1,
                                              !.attempts = @ + 1,
                                              !.attachedRef = FALSE]))
    /\ UNCHANGED cliRest

\* handleReconnect: the Reconnect button of the disconnected overlay.
CliReconnect ==
    /\ cli.mounted
    /\ cli.state = "disconnected"
    /\ cli' = DoAttach(ClearWsUrl([cli EXCEPT !.reconnectCount = 0,
                                              !.attempts = 0,
                                              !.state = "connecting",
                                              !.attachedRef = FALSE]))
    /\ UNCHANGED cliRest

\* useWindowDimensions reports a new width: terminalHtml is rebuilt for the
\* same wsUrl and a mounted WebView reloads it.
CliWidth ==
    /\ cli.mounted
    /\ cli.width < MaxRotations
    /\ cli' = IF cli.wsUrl # NoUrl THEN LoadPage([cli EXCEPT !.width = @ + 1])
                                   ELSE [cli EXCEPT !.width = @ + 1]
    /\ UNCHANGED cliRest

\* onBack: the screen unmounts; the effect's cleanup closes the socket and
\* clears the timeout reconnectTimer refers to.
CliUnmount ==
    /\ cli.mounted
    /\ cli' = [cli EXCEPT !.mounted = FALSE, !.ws = "none",
                          !.timers = IF @ > 0 THEN @ - 1 ELSE 0]
    /\ UNCHANGED cliRest

(***************************************************************************)
(* registerSessionRoutes (GET /api/sessions, GET /api/sessions/:id, POST   *)
(* kill, POST kill-all), TmuxManager.killSession, killAllClaudeSessions    *)
(* and the periodic refreshCache of startCacheRefresh.                     *)
(* A list-sessions run reports the windows that exist when it is started;  *)
(* a kill-session run removes its window when it returns.                  *)
(***************************************************************************)
Ops == 1..MaxOps
IdOrder == <<"a", "b">>         \* the order list-sessions prints the windows in
SeqOf(S) == SelectSeq(IdOrder, LAMBDA i : i \in S)

Roles == {"user", "assistant", "unknown"}       \* SessionMetadata.lastMessageRole

\* SessionRegistry.getTmuxStatus on the snapshot refreshTmuxStatus builds
\* from a window list and its attached flags.
TmuxStatus(list, att, id) ==
    IF id \notin list THEN "none"
    ELSE IF id \in att THEN "active"
    ELSE "detached"

\* Bug: the role is looked at before the tmux status.
ComputeClaudeStateRoleFirst(lastMessageRole, tmuxStatus) ==
    IF lastMessageRole = "assistant" THEN "waiting"
    ELSE IF lastMessageRole = "user" THEN "thinking"
    ELSE IF tmuxStatus = "none" THEN "idle"
    ELSE "unknown"

\* SessionRegistry.computeClaudeState
ComputeClaudeState(lastMessageRole, tmuxStatus) ==
    IF tmuxStatus = "none" THEN "idle"
    ELSE IF lastMessageRole = "assistant" THEN "waiting"
    ELSE IF lastMessageRole = "user" THEN "thinking"
    ELSE "unknown"

\* Bug: the connection flag is taken from the window list's attached flag.
ToViewFromList(id, role, list, att) ==
    [id |-> id,
     lastMessageRole |-> role,
     tmuxStatus |-> TmuxStatus(list, att, id),
     hasActiveConnection |-> id \in att,
     claudeState |-> ComputeClaudeState(role, TmuxStatus(list, att, id))]

\* SessionRegistry.toView for a discovered session, on a window list.
ToView(id, role, list, att) ==
    [id |-> id,
     lastMessageRole |-> role,
     tmuxStatus |-> TmuxStatus(list, att, id),
     hasActiveConnection |-> IsConnected(id),
     claudeState |-> ComputeClaudeState(role, TmuxStatus(list, att, id))]

NoOp == [kind |-> "idle", pc |-> "idle", id |-> "", snap |-> {}, att |-> {}, todo |-> <<>>,
         killed |-> 0, res |-> "",
         body |-> {},           \* the session views of the reply
         views |-> {},          \* ids whose view shows a tmuxStatus other than "none"
         had |-> {},            \* history: the owned windows when the request arrived
         hit |-> {},            \* history: the windows this request has killed
         after |-> {},          \* history: the ids killed by requests that had returned on arrival
         err |-> FALSE]         \* history: the list-sessions run of this request failed

InitialOps ==
    [o |-> [i \in Ops |-> NoOp],
     rpc |-> "idle",            \* the periodic refreshCache: idle, or list-sessions running
     rsnap |-> {},
     ratt |-> {},
     catt |-> {},               \* the members of cachedSessions with attached = true
     role |-> "unknown",        \* lastMessageRole of every record discovery holds
     gone |-> {}]               \* history: ids whose window a returned kill request killed

opsRest == <<stopped, lastAttachTime, lockHolder, req, dupSpawn, tokens, consumed, presented,
             bridgeVars, out, disc, sse, inp, hb, nsr, cli>>

OpFree(i) == ops.o[i].kind = "idle" /\ (i > 1 => ops.o[i - 1].kind # "idle")

OpDone(op, code) ==
    [op EXCEPT !.pc = "done", !.res = code, !.snap = {}, !.att = {}, !.todo = <<>>]

\* What a route does with the window list listSessions() returned.
Continue(op, list, att) ==
    IF op.kind = "kill"
    THEN IF op.id \in list THEN [op EXCEPT !.pc = "kill", !.snap = {}, !.att = {}]
         ELSE OpDone(op, "existed:false")
    ELSE IF op.kind = "killall"
    THEN IF list = {} THEN OpDone(op, "killed")
         ELSE [op EXCEPT !.pc = "akill", !.snap = {}, !.att = {}, !.todo = SeqOf(list)]
    ELSE IF op.kind = "detail"
    THEN [OpDone(op, "200") EXCEPT !.views = list \cap {op.id},
                                   !.body = {ToView(op.id, ops.role, list, att)}]
    ELSE [OpDone(op, "200") EXCEPT !.views = list \cap Discovered,
                                   !.body = {ToView(i, ops.role, list, att) : i \in Discovered}]

\* killAllClaudeSessions invalidates the cache when its loop is over.
Invalidates(op) == op.kind = "killall" /\ op.pc = "done"

\* A route calls listSessions(): the cached list while fresh, else refreshCache.
CallList(i, op) ==
    IF CacheFresh
    THEN /\ ops' = [ops EXCEPT !.o[i] = Continue(op, cachedSessions, ops.catt),
                               !.gone = IF Invalidates(Continue(op, cachedSessions, ops.catt))
                                        THEN @ \cup op.hit ELSE @]
         /\ cacheExpiry' = IF Invalidates(Continue(op, cachedSessions, ops.catt))
                           THEN 0 ELSE cacheExpiry
    ELSE /\ ops' = [ops EXCEPT !.o[i] = [op EXCEPT !.pc = "list", !.snap = windows,
                                                   !.att = Attached]]
         /\ UNCHANGED cacheExpiry

Begun(kind, id) == [NoOp EXCEPT !.kind = kind, !.id = id, !.had = windows, !.after = ops.gone]

\* POST /api/sessions/:id/kill
KillArrive(i, id) ==
    /\ OpFree(i)
    /\ IF ~IsValidSessionId(id)
       THEN /\ ops' = [ops EXCEPT !.o[i] = OpDone(Begun("kill", id), "400")]
            /\ UNCHANGED cacheExpiry
       ELSE CallList(i, Begun("kill", id))
    /\ UNCHANGED <<now, cachedSessions, windows, opsRest>>

\* POST /api/sessions/kill-all
KillAllArrive(i) ==
    /\ OpFree(i)
    /\ CallList(i, Begun("killall", ""))
    /\ UNCHANGED <<now, cachedSessions, windows, opsRest>>

\* GET /api/sessions/:id
DetailArrive(i, id) ==
    /\ OpFree(i)
    /\ IF ~IsValidSessionId(id)
       THEN /\ ops' = [ops EXCEPT !.o[i] = OpDone(Begun("detail", id), "400")]
            /\ UNCHANGED cacheExpiry
       ELSE IF id \notin Discovered
       THEN /\ ops' = [ops EXCEPT !.o[i] = OpDone(Begun("detail", id), "404")]
            /\ UNCHANGED cacheExpiry
       ELSE CallList(i, Begun("detail", id))
    /\ UNCHANGED <<now, cachedSessions, windows, opsRest>>

\* GET /api/sessions
GetArrive(i) ==
    /\ OpFree(i)
    /\ CallList(i, Begun("get", ""))
    /\ UNCHANGED <<now, cachedSessions, windows, opsRest>>

\* refreshCache() run for a route returns; on an error of the mux CLI the
\* list is emptied.
OpListDone(i, fail) ==
    /\ ops.o[i].pc = "list"
    /\ LET list == IF fail THEN {} ELSE ops.o[i].snap
           att == IF fail THEN {} ELSE ops.o[i].att
           op == Continue([ops.o[i] EXCEPT !.err = fail], list, att)
       IN  /\ cachedSessions' = list
           /\ cacheExpiry' = IF Invalidates(op) THEN 0 ELSE now + CACHE_TTL_MS
           /\ ops' = [ops EXCEPT !.o[i] = op, !.catt = att]
    /\ UNCHANGED <<now, windows, opsRest>>

\* killSession: kill-session returns, the cache is invalidated.
KillDone(i) ==
    /\ ops.o[i].pc = "kill"
    /\ windows' = windows \ {ops.o[i].id}
    /\ cacheExpiry' = 0
    /\ ops' = [ops EXCEPT !.o[i] = OpDone(@, "existed:true"),
                          !.gone = @ \cup {ops.o[i].id}]
    /\ UNCHANGED <<now, cachedSessions, opsRest>>

\* killAllClaudeSessions: one kill-session of the loop returns.
KillAllStep(i) ==
    /\ ops.o[i].pc = "akill"
    /\ LET op == ops.o[i]
           w == Head(op.todo)
           op1 == [op EXCEPT !.todo = Tail(@),
                             !.killed = IF w \in windows THEN @ + 1 ELSE @,
                             !.hit = IF w \in windows THEN @ \cup {w} ELSE @]
       IN  /\ windows' = windows \ {w}
           /\ IF Tail(op.todo) = <<>>
              THEN /\ ops' = [ops EXCEPT !.o[i] = OpDone(op1, "killed"),
                                         !.gone = @ \cup op1.hit]
                   /\ cacheExpiry' = 0
              ELSE /\ ops' = [ops EXCEPT !.o[i] = op1]
                   /\ UNCHANGED cacheExpiry
    /\ UNCHANGED <<now, cachedSessions, opsRest>>

\* The refresh interval fires: refreshCache() starts list-sessions.
RefreshStart ==
    /\ ops.rpc = "idle"
    /\ ops' = [ops EXCEPT !.rpc = "list", !.rsnap = windows, !.ratt = Attached]
    /\ UNCHANGED <<now, cachedSessions, cacheExpiry, windows, opsRest>>

\* The periodic refreshCache() returns.
RefreshDone(fail) ==
    /\ ops.rpc = "list"
    /\ cachedSessions' = IF fail THEN {} ELSE ops.rsnap
    /\ cacheExpiry' = now + CACHE_TTL_MS
    /\ ops' = [ops EXCEPT !.rpc = "idle", !.rsnap = {}, !.ratt = {},
                          !.catt = IF fail THEN {} ELSE ops.ratt]
    /\ UNCHANGED <<now, windows, opsRest>>

(***************************************************************************)
(* SessionDiscovery: the log directory, the watcher and the full scan.     *)
(* The log directory holds one project subdirectory; a file is named by    *)
(* its session id.                                                         *)
(***************************************************************************)
Files == {"s1", "s2"}
FileOrder == <<"s1", "s2">>     \* the order readdir lists the files in

NoFile == [present |-> FALSE, size |-> 0, mtime |-> 0, readable |-> TRUE]
AFile(size, mtime, readable) ==
    [present |-> TRUE, size |-> size, mtime |-> mtime, readable |-> readable]

NoTimer == 0 - 1     \* a timer field holding null

InitialDisc(fs0, cached) ==
    [sessions |-> [i \in Files |-> IF i \in cached THEN "parsed" ELSE "none"],  \* loadCache()
     mtimeCache |-> [i \in Files |-> 0],    \* 0: no record
     isScanning |-> FALSE,
     pc |-> "idle",             \* where fullScan is suspended
     todo |-> <<>>,             \* files of the listing not yet visited
     seen |-> {},
     cur |-> "",                \* the file being parsed by fullScan
     watching |-> FALSE,        \* the watcher is installed
     events |-> {},             \* watcher events not yet delivered
     chg |-> [i \in Files |-> "idle"],      \* onFileChange calls in flight
     fs |-> fs0,
     clock |-> 1,               \* file system operations so far, gives mtimeMs
     scans |-> 0,               \* full scans completed
     del |-> [i \in Files |-> "none"],  \* history: what became of the last unlink of the file
     delDuring |-> {},          \* history: files unlinked since the running scan listed them
     time |-> 0,                \* seconds since start()
     changeDebounceTimer |-> NoTimer,   \* the second the timeout is due at
     saveCacheTimer |-> NoTimer,
     rescanTimer |-> FALSE,     \* the rescan interval is installed
     stopped |-> FALSE,         \* stop() has returned
     writes |-> {},             \* saveCacheAsync calls awaiting writeFile: the entries they took
     file |-> [i \in Files |-> IF i \in cached THEN "parsed" ELSE "none"],  \* session-cache.json
     running |-> 0,             \* history: fullScan bodies between their try and finally
     busy |-> 0,                \* history: fullScan calls that returned at the isScanning test
     threw |-> FALSE,           \* history: a full scan ended with an exception
     lastMut |-> NoTimer,       \* history: the second of the last mutation of the map
     unannounced |-> FALSE,     \* history: the map was mutated since the last change event
     after |-> {}]              \* history: what happened after stop() returned

discRest == <<attachVars, bridgeVars, out, laterVars>>

\* History: the map is mutated at this second.
Mutated(d) == [d EXCEPT !.lastMut = d.time, !.unannounced = TRUE]

\* notifyChange(): the pending timeout is cleared and a new one is set.
NotifyChange(d) == [d EXCEPT !.changeDebounceTimer = d.time + CHANGE_DEBOUNCE_S]

\* saveCache(): the pending timeout is cleared and a new one is set.
SaveCache(d) == [d EXCEPT !.saveCacheTimer = d.time + SAVE_DEBOUNCE_S]

\* saveCacheAsync() up to its await of writeFile: the entries are taken.
SaveCacheAsync(d) == [d EXCEPT !.writes = @ \cup {d.sessions}]

\* History: what happens after stop() has returned.
After(d, what) == IF d.stopped THEN [d EXCEPT !.after = @ \cup {what}] ELSE d

\* The catch block of fullScan: a placeholder unless an entry exists.
Placeholder(d, id) ==
    IF d.sessions[id] = "none"
    THEN Mutated([d EXCEPT !.sessions[id] = "unreadable"])
    ELSE d

\* The end of fullScan: the sweep of unseen ids, then isScanning = false.
\* start() installs the watcher when its scan has returned.
ScanFinish(d) ==
    LET swept == [i \in Files |-> IF i \in d.seen THEN d.sessions[i] ELSE "none"]
        d1 == IF swept = d.sessions THEN d ELSE Mutated([d EXCEPT !.sessions = swept])
        d2 == NotifyChange(SaveCache(d1))
    IN  [d2 EXCEPT !.isScanning = FALSE, !.pc = "idle", !.cur = "",
                   !.scans = @ + 1, !.running = @ - 1,
                   !.watching = IF d.scans = 0 THEN TRUE ELSE @,
                   !.rescanTimer = IF d.scans = 0 THEN TRUE ELSE @]

\* The next iteration of the loop over the listed files.
ScanNext(d) == IF d.todo = <<>> THEN ScanFinish(d) ELSE [d EXCEPT !.pc = "stat"]

\* fullScan() is called, by start() or by the rescan timer.
\* fullScan() is called by start(), once, or by the rescan interval.
ScanCalled == (disc.running = 0 /\ disc.scans = 0) \/ disc.rescanTimer

\* Bug: fullScan does not test isScanning.
ScanStartUnguarded ==
    /\ ScanCalled
    /\ disc.scans < MaxScans
    /\ disc' = After([disc EXCEPT !.isScanning = TRUE, !.pc = "list", !.delDuring = {},
                                  !.running = @ + 1], "scan")
    /\ UNCHANGED discRest

ScanStart ==
    /\ ScanCalled
    /\ ~disc.isScanning
    /\ disc.scans < MaxScans
    /\ disc' = After([disc EXCEPT !.isScanning = TRUE, !.pc = "list", !.delDuring = {},
                                  !.running = @ + 1], "scan")
    /\ UNCHANGED discRest

\* The rescan timer calls fullScan() while a scan is running: it returns
\* at the isScanning test.
ScanBusy ==
    /\ disc.rescanTimer
    /\ disc.isScanning
    /\ disc.busy < MaxScans
    /\ disc' = [disc EXCEPT !.busy = @ + 1]
    /\ UNCHANGED discRest

\* An exception leaves the try block of fullScan: the finally block runs.
\* When it is the scan of start(), start() rejects before it installs the
\* watcher and the interval.
ScanThrow ==
    /\ disc.pc # "idle"
    /\ disc' = [disc EXCEPT !.isScanning = FALSE, !.pc = "idle", !.cur = "",
                            !.todo = <<>>, !.scans = @ + 1, !.running = @ - 1,
                            !.threw = TRUE]
    /\ UNCHANGED discRest

\* listProjectDirs and listJsonlFiles return.
ScanList ==
    /\ disc.pc = "list"
    /\ disc' = ScanNext([disc EXCEPT
                  !.todo = SelectSeq(FileOrder, LAMBDA i : disc.fs[i].present),
                  !.seen = {}])
    /\ UNCHANGED discRest

\* seen.add, then fsStat of the next listed file returns or throws.
ScanStat ==
    /\ disc.pc = "stat"
    /\ LET id == Head(disc.todo)
           f == disc.fs[id]
           d1 == [disc EXCEPT !.todo = Tail(@), !.seen = @ \cup {id}]
           d2 == [d1 EXCEPT !.mtimeCache[id] = f.mtime]
       IN  disc' = IF ~f.present THEN ScanNext(Placeholder(d1, id))
                   ELSE IF d1.mtimeCache[id] # 0 /\ d1.mtimeCache[id] = f.mtime
                   THEN ScanNext(d1)
                   ELSE IF f.size = 0 THEN ScanNext(d2)
                   ELSE [d2 EXCEPT !.pc = "parse", !.cur = id]
    /\ UNCHANGED discRest

\* parseSessionFile returns the metadata or throws.
ScanParse ==
    /\ disc.pc = "parse"
    /\ LET id == disc.cur
           f == disc.fs[id]
       IN  disc' = IF f.present /\ f.readable
                   THEN ScanNext(Mutated([disc EXCEPT !.sessions[id] = "parsed"]))
                   ELSE ScanNext(Placeholder(disc, id))
    /\ UNCHANGED discRest

\* onFileChange(path) up to the return of fsStat and the size test.
OnFileChange(id) ==
    /\ <<"change", id>> \in disc.events
    /\ disc.chg[id] = "idle"
    /\ LET f == disc.fs[id]
           d1 == [disc EXCEPT !.events = @ \ {<<"change", id>>}]
           d2 == [d1 EXCEPT !.mtimeCache[id] = f.mtime]
       IN  disc' = IF ~f.present THEN d1
                   ELSE IF f.size = 0 THEN d2
                   ELSE [d2 EXCEPT !.chg[id] = "parse"]
    /\ UNCHANGED discRest

\* onFileChange(path): parseSessionFile returns the metadata or throws.
ChangeParse(id) ==
    /\ disc.chg[id] = "parse"
    /\ LET f == disc.fs[id]
       IN  disc' = IF f.present /\ f.readable
                   THEN NotifyChange(Mutated([disc EXCEPT !.chg[id] = "idle",
                                                          !.sessions[id] = "parsed"]))
                   ELSE [disc EXCEPT !.chg[id] = "idle"]
    /\ UNCHANGED discRest

\* onFileRemove(path)
OnFileRemove(id) ==
    /\ <<"unlink", id>> \in disc.events
    /\ LET d1 == [disc EXCEPT !.events = @ \ {<<"unlink", id>>},
                              !.sessions[id] = "none",
                              !.mtimeCache[id] = 0,
                              !.del[id] = "handled"]
       IN  disc' = NotifyChange(IF disc.sessions[id] = "none" THEN d1 ELSE Mutated(d1))
    /\ UNCHANGED discRest

\* The timeout of notifyChange fires: emit("change").
ChangeTimerFires ==
    /\ disc.changeDebounceTimer # NoTimer
    /\ disc.time >= disc.changeDebounceTimer
    /\ disc' = After([disc EXCEPT !.changeDebounceTimer = NoTimer,
                                  !.unannounced = FALSE], "change")
    /\ UNCHANGED discRest

\* The timeout of saveCache fires: saveCacheAsync() is called.
SaveTimerFires ==
    /\ disc.saveCacheTimer # NoTimer
    /\ disc.time >= disc.saveCacheTimer
    /\ disc' = After(SaveCacheAsync([disc EXCEPT !.saveCacheTimer = NoTimer]), "save")
    /\ UNCHANGED discRest

\* writeFile of a saveCacheAsync call completes.
SaveWritten(w) ==
    /\ w \in disc.writes
    /\ disc' = [disc EXCEPT !.writes = @ \ {w}, !.file = w]
    /\ UNCHANGED discRest

\* stop(), called once start() has returned: the watcher is closed, the
\* interval and the save timeout are cleared, saveCacheImmediate() starts a
\* write.
DiscStop ==
    /\ disc.rescanTimer
    /\ ~disc.stopped
    /\ disc' = SaveCacheAsync([disc EXCEPT !.watching = FALSE, !.events = {},
                                           !.rescanTimer = FALSE,
                                           !.saveCacheTimer = NoTimer,
                                           !.stopped = TRUE])
    /\ UNCHANGED discRest

\* A second passes; a timeout that is due fires before the next second.
Due(t) == t # NoTimer /\ disc.time >= t

DiscTick ==
    /\ disc.time < MaxSecs
    /\ ~Due(disc.changeDebounceTimer)
    /\ ~Due(disc.saveCacheTimer)
    /\ disc' = [disc EXCEPT !.time = @ + 1]
    /\ UNCHANGED discRest

\* The events the watcher raises for a file system operation: none before
\* the watcher is installed, and an event may be missed.
Raised(d, kind, id, missed) ==
    IF d.watching /\ ~missed THEN d.events \cup {<<kind, id>>} ELSE d.events

\* The CLI creates a log file.
FsCreate(id, size, readable, missed) ==
    /\ disc.clock < MaxFsOps
    /\ ~disc.fs[id].present
    /\ disc' = [disc EXCEPT !.fs[id] = AFile(size, disc.clock + 1, readable),
                            !.clock = @ + 1,
                            !.events = Raised(disc, "change", id, missed),
                            !.del[id] = "none",
                            !.delDuring = @ \ {id}]
    /\ UNCHANGED discRest

\* The CLI appends to a log file.
FsWrite(id, missed) ==
    /\ disc.clock < MaxFsOps
    /\ disc.fs[id].present
    /\ disc' = [disc EXCEPT !.fs[id].size = 1,
                            !.fs[id].mtime = disc.clock + 1,
                            !.clock = @ + 1,
                            !.events = Raised(disc, "change", id, missed)]
    /\ UNCHANGED discRest

\* A log file is deleted.
FsDelete(id, missed) ==
    /\ disc.clock < MaxFsOps
    /\ disc.fs[id].present
    /\ disc' = [disc EXCEPT !.fs[id] = NoFile,
                            !.clock = @ + 1,
                            !.events = Raised(disc, "unlink", id, missed),
                            !.del[id] = IF disc.watching /\ ~missed THEN "pending" ELSE "missed",
                            !.delDuring = IF disc.isScanning /\ disc.pc # "list"
                                          THEN @ \cup {id} ELSE @]
    /\ UNCHANGED discRest

\* The log directories discovery may start on: each file absent, empty, or
\* holding records.
InitialFs ==
    [Files -> {NoFile, AFile(0, 1, TRUE), AFile(1, 1, TRUE), AFile(1, 1, FALSE)}]

IdleDisc == InitialDisc([i \in Files |-> NoFile], {})

InitAttach ==
    /\ now = TickMs
    /\ stopped = FALSE
    /\ lastAttachTime = [i \in Ids |-> NoTime]
    /\ cachedSessions = {}
    /\ cacheExpiry = 0
    /\ lockHolder = [i \in Ids |-> 0]
    /\ windows \in {{}, {"b"}}
    /\ req = [r \in Reqs |-> NoReq]
    /\ dupSpawn = FALSE
    /\ tokens = [t \in Reqs |-> NoToken]
    /\ consumed = [t \in Reqs |-> 0]
    /\ presented = [c \in Conns |-> 0]
    /\ conn = [c \in Conns |-> [pc |-> "idle", id |-> ""]]
    /\ ws = [c \in Conns |-> "none"]
    /\ terminals = [i \in Ids |-> 0]
    /\ term = [c \in Conns |-> NoTerm]
    /\ pty = [c \in Conns |-> "none"]


Init ==
    /\ InitAttach
    /\ out = InitialOut
    /\ disc = IdleDisc
    /\ sse = InitialSse
    /\ ops = InitialOps
    /\ inp = InitialInp
    /\ hb = InitialHb
    /\ nsr = InitialNsr
    /\ cli = IdleCli

Next ==
    \/ \E r \in Reqs, id \in ParamIds : Arrive(r, id)
    \/ \E r \in Reqs : ExistDone(r)
    \/ \E r \in Reqs : AttachEnter(r)
    \/ \E r \in Reqs, running \in BOOLEAN : ProbeDone(r, running)
    \/ \E r \in Reqs : ListDone(r)
    \/ \E r \in Reqs : HasDone(r)
    \/ \E r \in Reqs, ok \in BOOLEAN : CreateDone(r, ok)
    \/ \E r \in Reqs : Mint(r)
    \/ Tick
    \/ TokenSweep
    \/ \E c \in Conns, id \in Ids, t \in Reqs : WsOpen(c, id, t)
    \/ \E c \in Conns : BridgeSpawn(c)
    \/ \E c \in Conns : WsClosed(c)
    \/ \E c \in Conns : PtyExit(c)

Spec == Init /\ [][Next]_vars

(***************************************************************************)
(* The terminal bridge on its own: sockets arrive authenticated.           *)
(***************************************************************************)
NextBridge ==
    \/ \E c \in Conns, id \in Ids : BridgeAttach(c, id)
    \/ \E c \in Conns : BridgeSpawn(c)
    \/ \E c \in Conns : WsClosing(c)
    \/ \E c \in Conns : WsClosed(c)
    \/ \E c \in Conns : WsError(c)
    \/ \E c \in Conns : PtyExit(c)
    \/ \E c \in Conns : Escalate(c)
    \/ ReapOrphans
    \/ BridgeStop

SpecBridge == Init /\ [][NextBridge]_vars

(***************************************************************************)
(* The output path of one attached terminal.                               *)
(***************************************************************************)
NextOutput ==
    \/ \E len \in ChunkSizes : OutData(len)
    \/ OutInitialFlush
    \/ OutBatchTimer
    \/ OutDrain
    \/ OutWsClose
    \/ OutPtyExit

InitOutput == Init /\ windows = {}

SpecOutput == InitOutput /\ [][NextOutput]_vars

(***************************************************************************)
(* Claims about the attach path                                            *)
(***************************************************************************)
InBody(r) == req[r].pc \in {"probe", "list", "has", "create"}
Admitted(r) == req[r].at > 0 /\ req[r].res # "429"
Unsignalled(i) == {c \in Conns : conn[c].id = i /\ pty[c] = "alive" /\ term[c].kills = 0}

\* C1: for every session id the bridge never has two PTY processes spawned and
\* alive at the same time (a PTY that cleanup has already signalled is not
\* counted): of two overlapping WebSocket opens one spawns, the other gets 4409.
C1_OnePtyPerSession ==
    \A i \in Ids : Cardinality(Unsignalled(i)) <= 1

\* C2: an attach token is consumed successfully at most once, and after the
\* successful consume it is no longer in the token map.
C2_TokenSingleUse ==
    \A t \in Reqs : /\ consumed[t] <= 1
                    /\ consumed[t] = 1 => tokens[t] = NoToken

\* Two sockets presented the same token: one consume succeeded, the other failed.
C2_Witness ==
    \E c1, c2 \in Conns :
        /\ c1 # c2
        /\ presented[c1] # 0 /\ presented[c1] = presented[c2]
        /\ consumed[presented[c1]] = 1
        /\ conn[c1].pc \in {"spawning", "attached"}
        /\ conn[c2].pc = "rejAuth"

\* C3 as stated: every step of an attach request from its first check to its
\* token mint runs with the session lock held, so no two requests for one id
\* are between first check and token mint at the same time.
C3_AllStepsUnderLock ==
    /\ \A r \in Reqs : (InBody(r) \/ req[r].pc = "mint") => lockHolder[req[r].id] = r
    /\ \A r1, r2 \in Reqs :
         (r1 # r2 /\ req[r1].id = req[r2].id /\ req[r1].pc = "mint") => ~InBody(r2)

\* C3 amended: the liveness probe, conflict probe, capacity check and
\* create-or-adopt of a request run with the session lock of its id held, and
\* the lock is held by nobody else; the token is minted after the release.
C3_ChecksUnderLock ==
    /\ \A r \in Reqs : InBody(r) => lockHolder[req[r].id] = r
    /\ \A r \in Reqs : req[r].pc = "mint" => lockHolder[req[r].id] # r
    /\ \A i \in Ids : lockHolder[i] # 0 =>
                        (InBody(lockHolder[i]) /\ req[lockHolder[i]].id = i)

\* One request is inside the body while another for the same id waits for the lock.
C3_Witness ==
    \E r1, r2 \in Reqs :
        /\ r1 # r2 /\ req[r1].id = req[r2].id
        /\ InBody(r1) /\ req[r2].pc = "lock"

C5_SpawnOnce ==
    /\ ~dupSpawn
    /\ \A i \in Ids : Cardinality({r \in Reqs : req[r].id = i /\ req[r].spawned}) <= 1
    /\ \A r \in Reqs : req[r].pc = "create" => req[r].id \notin windows
    /\ \A r \in Reqs : (req[r].pc \in {"mint", "done"} /\ req[r].spawned) => ~req[r].existed
    /\ \A r \in Reqs : (req[r].res = "200" /\ ~req[r].spawned) => req[r].existed

\* One attach created the window and a later one for the same id adopted it.
C5_Witness ==
    \E r1, r2 \in Reqs :
        /\ r1 # r2 /\ req[r1].id = req[r2].id
        /\ req[r1].spawned
        /\ req[r2].res = "200" /\ req[r2].existed /\ ~req[r2].spawned

(***************************************************************************)
(* Claims about the terminal bridge                                        *)
(***************************************************************************)
\* C6: cleanup invoked N >= 1 times on a terminal performs exactly one PTY
\* termination: one kill call, at most one SIGKILL; later calls are no-ops.
C6_ExactlyOneTermination ==
    \A c \in Conns :
        /\ term[c].kills <= 1 /\ term[c].sigkills <= 1
        /\ term[c].calls >= 1 => term[c].kills = 1

(***************************************************************************)
(* Claims about the attach tokens                                          *)
(***************************************************************************)
\* Connection c presents token t in this step.
Attempt(c, t) == conn[c].pc = "idle" /\ conn'[c].pc # "idle" /\ presented'[c] = t

\* Token t was generated, was never consumed, and its expiresAt has passed:
\* the entry is past its time, or is gone, which for an unconsumed token is
\* the sweep's doing.
Lapsed(t) ==
    /\ req[t].res = "200"
    /\ consumed[t] = 0
    /\ (tokens[t] = NoToken \/ now > tokens[t].exp)

\* The sweep removes only entries whose expiresAt has passed, and a consume
\* succeeds only on an entry whose expiresAt has not passed.
SweepAndConsumeInTime ==
    \A t \in Reqs :
        /\ (tokens[t] # NoToken /\ tokens'[t] = NoToken /\ consumed'[t] = consumed[t])
              => now > tokens[t].exp
        /\ consumed'[t] > consumed[t] => (tokens[t] # NoToken /\ now <= tokens[t].exp)

\* C13 (as stated): every consume of a token attempted after its expiresAt
\* fails with Expired, whether or not the sweep has removed the entry, and
\* the sweep never removes an entry whose expiresAt has not passed.
C13_ExpiredForever ==
    [][/\ SweepAndConsumeInTime
       /\ \A c \in Conns, t \in Reqs :
             (Attempt(c, t) /\ Lapsed(t))
                => (consumed'[t] = 0 /\ ConsumeResult(t, conn'[c].id) = "Expired")]_vars

\* C13 (amended): every consume of a token attempted after its expiresAt
\* fails and the socket is rejected: with Expired while the entry is in the
\* map, with Invalid once the sweep has removed it; the sweep never removes
\* an entry whose expiresAt has not passed.
C13_NeverConsumedAfterExpiry ==
    [][/\ SweepAndConsumeInTime
       /\ \A c \in Conns, t \in Reqs :
             (Attempt(c, t) /\ Lapsed(t))
                => /\ consumed'[t] = 0
                   /\ conn'[c].pc = "rejAuth"
                   /\ ConsumeResult(t, conn'[c].id) =
                         IF tokens[t] = NoToken THEN "Invalid" ELSE "Expired"]_vars

\* An unconsumed token past its expiresAt, still in the map, was presented
\* for its own session id and the socket was rejected.
C13_Witness ==
    \E c \in Conns, t \in Reqs :
        /\ conn[c].pc = "rejAuth"
        /\ presented[c] = t
        /\ req[t].res = "200"
        /\ consumed[t] = 0
        /\ tokens[t] # NoToken
        /\ tokens[t].sid = conn[c].id
        /\ now > tokens[t].exp

(***************************************************************************)
(* Claims about the checks of attach                                       *)
(***************************************************************************)
ConflictCodes == {"SESSION_ATTACHED", "SESSION_CONFLICT", "MAX_SESSIONS"}
Failed(r) == req[r].pc = "done" /\ req[r].res \in ConflictCodes

Full(list, id) == Cardinality(list) >= MaxSessions /\ ~(id \in list)

Answered(r, code) == req[r].res # code /\ req'[r].res = code

\* C30: attach runs its checks in the order active connection, conflicting
\* process, capacity, existing window, and the first that fails gives the
\* result. When the lock is granted with an active connection the result is
\* SESSION_ATTACHED, else the process probe is started; when the probe
\* reports a running process the result is SESSION_CONFLICT, whatever the
\* window list holds; MAX_SESSIONS is given only to a request that passed
\* both, and the has-session probe is started only after all three.
C30_CheckOrder ==
    [][\A r \in Reqs :
          /\ (req[r].pc = "lock" /\ req'[r].pc # "lock")
                => IF IsConnected(req[r].id)
                   THEN req'[r].pc = "done" /\ req'[r].res = "SESSION_ATTACHED"
                   ELSE req'[r].pc = "probe"
          /\ Answered(r, "SESSION_ATTACHED") => req[r].pc = "lock"
          /\ (req[r].pc = "probe" /\ req'[r].pc # "probe")
                => /\ req'[r].probe \in {"running", "clear"}
                   /\ req'[r].probe = "running"
                         <=> (req'[r].pc = "done" /\ req'[r].res = "SESSION_CONFLICT")
          /\ Answered(r, "SESSION_CONFLICT") => req[r].pc = "probe"
          /\ Answered(r, "MAX_SESSIONS")
                => (req[r].pc \in {"probe", "list"} /\ req'[r].probe = "clear")
          /\ (req[r].pc # "has" /\ req'[r].pc = "has")
                => (req[r].pc \in {"probe", "list"} /\ req'[r].probe = "clear")]_vars

\* With the capacity exhausted for its id, one request was refused for a
\* running process and another, whose probe was clear, for capacity.
C30_Witness ==
    \E r, q \in Reqs :
        /\ req[r].res = "SESSION_CONFLICT" /\ req[q].res = "MAX_SESSIONS"
        /\ req[r].id = req[q].id /\ req[r].id \notin windows
        /\ Cardinality(windows) >= MaxSessions
        /\ CacheFresh /\ cachedSessions = windows

(***************************************************************************)
(* Session discovery.                                                      *)
(***************************************************************************)
NextDiscovery ==
    \/ ScanStart
    \/ ScanList
    \/ ScanStat
    \/ ScanParse
    \/ \E id \in Files : OnFileChange(id)
    \/ \E id \in Files : ChangeParse(id)
    \/ \E id \in Files : OnFileRemove(id)
    \/ \E id \in Files, size \in {0, 1}, readable, missed \in BOOLEAN :
          FsCreate(id, size, readable, missed)
    \/ \E id \in Files, missed \in BOOLEAN : FsWrite(id, missed)
    \/ \E id \in Files, missed \in BOOLEAN : FsDelete(id, missed)

InitDiscovery ==
    /\ InitAttach
    /\ windows = {}
    /\ out = InitialOut
    /\ sse = InitialSse
    /\ ops = InitialOps
    /\ inp = InitialInp
    /\ hb = InitialHb
    /\ nsr = InitialNsr
    /\ cli = IdleCli
    /\ disc \in {InitialDisc(f, c) : f \in InitialFs, c \in SUBSET Files}

SpecDiscovery == InitDiscovery /\ [][NextDiscovery]_vars

(***************************************************************************)
(* Session discovery with its timers and stop(): the log files are         *)
(* readable, the watcher misses no event and the CLI writes to one file.   *)
(***************************************************************************)
NextTimers ==
    \/ ScanStart
    \/ ScanList
    \/ ScanStat
    \/ ScanParse
    \/ \E id \in Files : OnFileChange(id)
    \/ \E id \in Files : ChangeParse(id)
    \/ \E id \in Files : OnFileRemove(id)
    \/ FsCreate("s1", 1, TRUE, FALSE)
    \/ FsWrite("s1", FALSE)
    \/ FsDelete("s1", FALSE)
    \/ ChangeTimerFires
    \/ SaveTimerFires
    \/ \E w \in disc.writes : SaveWritten(w)
    \/ DiscStop
    \/ DiscTick

InitTimers ==
    /\ InitAttach
    /\ windows = {}
    /\ out = InitialOut
    /\ sse = InitialSse
    /\ ops = InitialOps
    /\ inp = InitialInp
    /\ hb = InitialHb
    /\ nsr = InitialNsr
    /\ cli = IdleCli
    /\ disc = InitialDisc([i \in Files |-> AFile(1, 1, TRUE)], {})

SpecTimers == InitTimers /\ [][NextTimers]_vars

(***************************************************************************)
(* The full scan with the calls of the rescan interval and an exception    *)
(* leaving its try block.                                                  *)
(***************************************************************************)
NextScan ==
    \/ ScanStart
    \/ ScanBusy
    \/ ScanThrow
    \/ ScanList
    \/ ScanStat
    \/ ScanParse
    \/ \E id \in Files : OnFileChange(id)
    \/ \E id \in Files : ChangeParse(id)
    \/ \E id \in Files : OnFileRemove(id)
    \/ \E id \in Files, readable \in BOOLEAN : FsCreate(id, 1, readable, FALSE)
    \/ \E id \in Files : FsWrite(id, FALSE)
    \/ \E id \in Files : FsDelete(id, FALSE)

InitScan ==
    /\ InitAttach
    /\ windows = {}
    /\ out = InitialOut
    /\ sse = InitialSse
    /\ ops = InitialOps
    /\ inp = InitialInp
    /\ hb = InitialHb
    /\ nsr = InitialNsr
    /\ cli = IdleCli
    /\ disc \in {InitialDisc(f, {}) : f \in [Files -> {NoFile, AFile(1, 1, TRUE)}]}

SpecScan == InitScan /\ [][NextScan]_vars

(***************************************************************************)
(* Attach requests and new-session requests together.                      *)
(***************************************************************************)
NextCapacity ==
    \/ \E r \in Reqs, id \in ParamIds : Arrive(r, id)
    \/ \E r \in Reqs : ExistDone(r)
    \/ \E r \in Reqs : AttachEnter(r)
    \/ \E r \in Reqs, running \in BOOLEAN : ProbeDone(r, running)
    \/ \E r \in Reqs : ListDone(r)
    \/ \E r \in Reqs : HasDone(r)
    \/ \E r \in Reqs, ok \in BOOLEAN : CreateDone(r, ok)
    \/ \E r \in Reqs : Mint(r)
    \/ \E n \in News, body \in Bodies : NewArrive(n, body)
    \/ \E n \in News : NewStatDone(n)
    \/ \E n \in News : NewListDone(n)
    \/ \E n \in News, ok \in BOOLEAN : NewCreateDone(n, ok)

SpecCapacity == Init /\ [][NextCapacity]_vars

(***************************************************************************)
(* Mobile client.                                                          *)
(***************************************************************************)
NextClient ==
    \/ CliAttachOk
    \/ CliAttachFail
    \/ CliWsOpen
    \/ \E code \in CloseCodes : CliWsClose(code)
    \/ CliWsError
    \/ CliTimer
    \/ CliReconnect
    \/ CliWidth
    \/ CliUnmount

InitClient ==
    /\ InitAttach
    /\ windows = {}
    /\ out = InitialOut
    /\ disc = IdleDisc
    /\ sse = InitialSse
    /\ ops = InitialOps
    /\ inp = InitialInp
    /\ hb = InitialHb
    /\ nsr = InitialNsr
    /\ cli \in {MountedCli(pre) : pre \in BOOLEAN}

SpecClient == InitClient /\ [][NextClient]_vars

\* onMessage handles the close of the terminal WebSocket at this step.
HandledClose == cli.ws \in {"connecting", "open"} /\ cli'.ws = "closed"

\* C35: when the terminal WebSocket closes with a code in 4400..4499 the
\* client enters the error state, schedules no reconnect and makes no
\* attach request and opens no socket from then on; for every other close
\* code it schedules a reconnect while fewer than 3 were made, and the
\* automatic reconnect attempts since the last successful connection are
\* never more than 3.
C35_NoRetryAfterAuthClose ==
    /\ [][HandledClose =>
            IF AuthClass(cli'.lastCode)
            THEN cli'.state = "error" /\ cli'.timers = cli.timers /\ cli'.reqs = cli.reqs
            ELSE cli.reconnectCount < MAX_RECONNECT =>
                    (cli'.state = "reconnecting" /\ cli'.timers = cli.timers + 1)]_vars
    /\ [](~cli.afterAuth)
    /\ [](cli.attempts <= MAX_RECONNECT)

\* The same as long as the screen width has not changed.
C35_UntilRebuild ==
    cli.width = 0 => (~cli.afterAuth /\ cli.attempts <= MAX_RECONNECT)

\* C39: the client opens at most one WebSocket per attach token it holds,
\* the prop token of a newly created session included: every terminal
\* connection uses a token of its own.
C39_OneSocketPerToken ==
    \A t \in UrlTokens : cli.opened[t] <= 1

\* The same as long as the screen width has not changed.
C39_UntilRebuild ==
    cli.width = 0 => \A t \in UrlTokens : cli.opened[t] <= 1

(***************************************************************************)
(* The attach route with its rate-limit sweep.                             *)
(***************************************************************************)
NextRate ==
    \/ \E r \in Reqs, id \in ParamIds : Arrive(r, id)
    \/ \E r \in Reqs : ExistDone(r)
    \/ \E r \in Reqs : AttachEnter(r)
    \/ \E r \in Reqs, running \in BOOLEAN : ProbeDone(r, running)
    \/ \E r \in Reqs : ListDone(r)
    \/ \E r \in Reqs : HasDone(r)
    \/ \E r \in Reqs, ok \in BOOLEAN : CreateDone(r, ok)
    \/ \E r \in Reqs : Mint(r)
    \/ RateSweep
    \/ RateTick

SpecRate == Init /\ [][NextRate]_vars

\* The request passes the rate-limit check at this step.
Passes(r) == req[r].pc \in {"idle", "exist"} /\ req'[r].pc = "lock"

\* C37: the 5 s window of a session id is started by every attach request
\* that passes validation, the existence check and the rate-limit check,
\* whatever becomes of it afterwards, and by nothing else: the entry
\* changes only when such a request records its time or when the sweep
\* deletes it, and the sweep never ends a window that is still open (a
\* window ends by the passage of time only).
C37_RateWindow ==
    /\ [][\A r \in Reqs : Passes(r) => lastAttachTime'[req'[r].id] = now]_vars
    /\ [][\A i \in Ids :
            lastAttachTime'[i] # lastAttachTime[i] =>
               \/ \E r \in Reqs : Passes(r) /\ req'[r].id = i
               \/ lastAttachTime'[i] = NoTime /\ ~RateLimited(i)]_vars
    /\ [][\A i \in Ids :
            (RateLimited(i) /\ now' = now) =>
               (lastAttachTime'[i] # NoTime /\ now - lastAttachTime'[i] < RATE_LIMIT_MS)]_vars

\* A request that passed the checks failed with a 409, a request for the
\* same id less than 5 s later was answered 429, and more than 60 s later
\* the sweep has deleted the entry.
C37_Witness ==
    \E r1, r2 \in Reqs :
        /\ r1 # r2 /\ req[r1].id = req[r2].id
        /\ Failed(r1)
        /\ req[r2].res = "429" /\ req[r2].at - req[r1].at < RATE_LIMIT_MS
        /\ lastAttachTime[req[r1].id] = NoTime

\* C36: whatever the interleaving of attach requests and createNew
\* requests, the number of owned tmux windows never exceeds maxSessions.
C36_NeverOverCapacity == Cardinality(windows) <= MaxSessions

\* C32: for every SSE client the first sessions frame written to it is
\* its initial snapshot (payload 0); the pushes of change events come after
\* it, also when a change is emitted while the snapshot is being built.
C32_SnapshotFirst ==
    \A c \in Clients : sse.recv[c] # <<>> => sse.recv[c][1] = 0

\* The log file cannot be read or parsed.
Unreadable(id) == ~(disc.fs[id].present /\ disc.fs[id].readable)

\* The step at which fsStat or parseSessionFile throws for the file, in
\* the loop of fullScan.
ScanFailsOn(id) ==
    \/ /\ disc.pc = "stat" /\ Head(disc.todo) = id /\ disc'.todo # disc.todo
       /\ ~disc.fs[id].present
    \/ /\ disc.pc = "parse" /\ disc.cur = id /\ disc'.pc # "parse"
       /\ Unreadable(id)

\* The same in onFileChange.
ChangeFailsOn(id) ==
    \/ /\ <<"change", id>> \in disc.events /\ <<"change", id>> \notin disc'.events
       /\ ~disc.fs[id].present
    \/ /\ disc.chg[id] = "parse" /\ disc'.chg[id] = "idle"
       /\ Unreadable(id)

\* What the spec says a failure leaves in the map for the session id.
FailureHandled(id) ==
    disc'.sessions[id] = IF disc.sessions[id] = "none" THEN "unreadable"
                                                      ELSE disc.sessions[id]

\* C34: when reading or parsing a log file fails, on the full-scan path
\* and on the watcher add/change path alike, an entry that exists for the
\* session id is retained unchanged and a session id without an entry gets
\* the "(unable to read)" placeholder.
C34_SameFailureHandling ==
    [][\A id \in Files : (ScanFailsOn(id) \/ ChangeFailsOn(id)) => FailureHandled(id)]_vars

\* The full-scan path alone.
C34_ScanPath ==
    [][\A id \in Files : ScanFailsOn(id) => FailureHandled(id)]_vars

(***************************************************************************)
(* Discovery timer claims.                                                 *)
(***************************************************************************)
\* The step at which emit("change") runs: only the timeout of notifyChange
\* sets the timer field back to null.
ChangeEmitted ==
    disc.changeDebounceTimer # NoTimer /\ disc'.changeDebounceTimer = NoTimer

\* The 2 s window of the last mutation of the map is still open.
WindowOpen == disc.lastMut # NoTimer /\ disc.time < disc.lastMut + CHANGE_DEBOUNCE_S

\* C31: change events are coalesced in a 2 s window.  A mutation of the map
\* that no change event has followed yet is never older than 2 s (the
\* event of a burst comes 2 s after its last mutation, and every mutation
\* is followed by one), and no change event is emitted while the window of
\* a later mutation is still open.
C31_CoalescedChange ==
    /\ [](disc.unannounced => disc.time <= disc.lastMut + CHANGE_DEBOUNCE_S)
    /\ [][ChangeEmitted => ~WindowOpen]_vars

\* A fullScan() call returns at the isScanning test at this step.
BusyReturn == disc'.busy # disc.busy

\* C38: at most one full scan is in progress at any time.  A full scan
\* requested while another is running returns without touching the map,
\* the mtime records or the running scan, and the in-progress flag is set
\* exactly while a scan is between its try and its finally, also after a
\* scan that ended with an exception, so that no later scan finds the flag
\* left set.
C38_OneScanAtATime ==
    /\ [](disc.running <= 1)
    /\ [](disc.isScanning <=> disc.running = 1)
    /\ [](disc.pc = "idle" => ~disc.isScanning)
    /\ [][BusyReturn => /\ disc'.sessions = disc.sessions
                        /\ disc'.mtimeCache = disc.mtimeCache
                        /\ disc'.pc = disc.pc
                        /\ disc'.todo = disc.todo
                        /\ disc'.seen = disc.seen]_vars

\* A scan was requested while another was running, a scan has ended with
\* an exception, and the flag is clear.
C38_Witness == disc.busy > 0 /\ disc.threw /\ ~disc.isScanning

\* stop() returns at this step.
StopReturns == ~disc.stopped /\ disc'.stopped

\* C33: when stop() returns the cache file holds the current map, and
\* after stop() no change event is emitted, no full scan starts and no
\* debounced save fires, also when a debounce window was open or a full
\* scan was running when stop() was called.
C33_StopIsFinal ==
    /\ [][StopReturns => disc'.file = disc'.sessions]_vars
    /\ [](disc.stopped => disc.after = {})

\* The part of C33 about events after stop(), alone.
C33_QuietAfterStop == disc.stopped => disc.after = {}

(***************************************************************************)
(* Output path claims.                                                     *)
(***************************************************************************)
\* The chunks onData took into the buffer, in the order the PTY produced
\* them: those produced after the initial flush suppression ended.
Accepted == SelectSeq(out.log, LAMBDA c : c.n \notin out.suppressed)

Delivered == out.sent \o Numbers(out.buf)

Increasing(q) == \A i, j \in 1..Len(q) : i < j => q[i] < q[j]

\* The pending chunks can still reach the socket: a flush is scheduled and
\* the socket accepts frames.
FlushAhead == out.buf # <<>> => (out.timer /\ out.ws = "open")

\* C7: for a stream of chunks totalling at most 1 MiB, on a socket the
\* client keeps open, the chunks sent followed by the chunks that a
\* scheduled flush will still send are exactly the chunks of the stream in
\* the order the PTY produced them, whatever the backpressure deferrals.
\* The chunks of the documented 500 ms initial suppression are not counted
\* as part of the stream.
C7_ExactConcatenation ==
    (~out.hungUp /\ SumLen(Accepted) <= OUTPUT_BUFFER_MAX)
        => /\ Delivered = Numbers(Accepted)
           /\ FlushAhead

\* C8: the chunks sent are an order-preserving subsequence of the chunks
\* produced, and on a socket the client keeps open a chunk that is neither
\* sent nor about to be sent by a scheduled flush was shifted out of the
\* buffer by a chunk that did not fit under the 1 MiB cap, being older
\* than every chunk kept.  The chunks of the documented 500 ms initial
\* suppression are not counted.
C8_LossOnlyByHeadEviction ==
    /\ Increasing(Delivered)
    /\ ~out.needless
    /\ ~out.hungUp =>
         \A i \in 1..Len(Accepted) :
            LET k == Accepted[i].n
            IN  \/ \E j \in 1..Len(out.sent) : out.sent[j] = k
                \/ /\ \E j \in 1..Len(out.buf) : out.buf[j].n = k
                   /\ FlushAhead
                \/ /\ k \in out.evicted
                   /\ \A j \in 1..Len(out.buf) : k < out.buf[j].n

(***************************************************************************)
(* Discovery claims.                                                       *)
(***************************************************************************)
ScanEnds == disc.isScanning /\ ~disc'.isScanning

\* C9: at the end of every full scan, every file the scan listed that is
\* still present has an entry in discovery's map, whatever its size and
\* whatever the mtime record held.
C9_EveryFileHasEntry ==
    [][ScanEnds =>
         \A i \in disc'.seen : disc'.fs[i].present => disc'.sessions[i] # "none"]_vars

\* C10: at the end of every full scan, every session id in discovery's map
\* has an existing log file, unless the file was unlinked after the scan
\* listed it and the unlink event has not been processed.
C10_EveryEntryHasFile ==
    [][ScanEnds =>
         \A i \in Files :
            disc'.sessions[i] # "none"
               => \/ disc'.fs[i].present
                  \/ i \in disc'.delDuring /\ disc'.del[i] # "handled"]_vars

(***************************************************************************)
(* The SSE stream.                                                         *)
(***************************************************************************)
NextStream ==
    \/ SseNotify
    \/ SseEmit
    \/ \E e \in Events : SsePush(e)
    \/ \E c \in Clients : SseConnect(c)
    \/ \E c \in Clients : SseSnapshot(c)
    \/ \E c \in Clients : SseDisconnect(c)

InitStream == Init /\ windows = {}

SpecStream == InitStream /\ [][NextStream]_vars

Count(q, x) == Cardinality({i \in 1..Len(q) : q[i] = x})

\* C11: a client that was in the set when a change event was emitted and is
\* still connected when the listener of that event has finished has received
\* exactly one payload for the event; no client ever receives two payloads
\* for one event or two initial snapshots, and every payload received is the
\* initial snapshot or the payload of an emitted event.
C11_OnePayloadPerEvent ==
    \A c \in Clients :
        /\ \A i \in 1..Len(sse.recv[c]) : sse.recv[c][i] \in 0..sse.emitted
        /\ Count(sse.recv[c], 0) <= 1
        /\ \A e \in Events :
              /\ Count(sse.recv[c], e) <= 1
              /\ (e \in sse.done /\ c \in sse.present[e] /\ sse.st[c] # "closed")
                    => Count(sse.recv[c], e) = 1

\* Two events were pushed to a client that was connected for both, one of
\* them while its initial snapshot was still pending.
C11_Witness ==
    \E c \in Clients :
        /\ sse.st[c] = "open"
        /\ sse.done = Events
        /\ \A e \in Events : c \in sse.present[e]
        /\ \E i, j \in 1..Len(sse.recv[c]) : i < j /\ sse.recv[c][i] > 0 /\ sse.recv[c][j] = 0

(***************************************************************************)
(* The kill routes, the list routes and the window cache.                  *)
(***************************************************************************)
NextKill ==
    \/ \E i \in Ops, id \in ParamIds : KillArrive(i, id)
    \/ \E i \in Ops : KillAllArrive(i)
    \/ \E i \in Ops, id \in ParamIds : DetailArrive(i, id)
    \/ \E i \in Ops : GetArrive(i)
    \/ \E i \in Ops, fail \in BOOLEAN : OpListDone(i, fail)
    \/ \E i \in Ops : KillDone(i)
    \/ \E i \in Ops : KillAllStep(i)
    \/ RefreshStart
    \/ \E fail \in BOOLEAN : RefreshDone(fail)
    \/ Tick

\* The daemon starts with any set of owned windows left by an earlier run.
InitKill ==
    /\ now = TickMs
    /\ stopped = FALSE
    /\ lastAttachTime = [i \in Ids |-> NoTime]
    /\ cachedSessions = {}
    /\ cacheExpiry = 0
    /\ lockHolder = [i \in Ids |-> 0]
    /\ windows \in SUBSET Ids
    /\ req = [r \in Reqs |-> NoReq]
    /\ dupSpawn = FALSE
    /\ tokens = [t \in Reqs |-> NoToken]
    /\ consumed = [t \in Reqs |-> 0]
    /\ presented = [c \in Conns |-> 0]
    /\ conn = [c \in Conns |-> [pc |-> "idle", id |-> ""]]
    /\ ws = [c \in Conns |-> "none"]
    /\ terminals = [i \in Ids |-> 0]
    /\ term = [c \in Conns |-> NoTerm]
    /\ pty = [c \in Conns |-> "none"]
    /\ out = InitialOut
    /\ disc = IdleDisc
    /\ sse = InitialSse
    /\ ops = InitialOps
    /\ inp = InitialInp
    /\ hb = InitialHb
    /\ nsr = InitialNsr
    /\ cli = IdleCli

SpecKill == InitKill /\ [][NextKill]_vars

\* C16: a view produced by a GET that arrived after a kill or kill-all had
\* returned shows no tmux window (tmuxStatus "none", hence claudeState
\* "idle") for a session whose window that request killed.
C16_KilledShowsNone ==
    \A i \in Ops :
        (ops.o[i].kind \in {"get", "detail"} /\ ops.o[i].pc = "done" /\ ops.o[i].res = "200")
            => ops.o[i].views \cap ops.o[i].after = {}

\* C17: when kill-all has returned (its own list-sessions run, if it made
\* one, not having failed), no owned window that existed when it was called
\* remains, whatever the window cache held; and if no other request killed
\* windows meanwhile, the count it returns is the number of owned windows
\* that existed when it was called.
C17_KillAllKillsAll ==
    \A i \in Ops :
        (ops.o[i].kind = "killall" /\ ops.o[i].pc = "done" /\ ~ops.o[i].err)
            => /\ windows \cap ops.o[i].had = {}
               /\ (\A j \in Ops \ {i} : ops.o[j].kind \notin {"kill", "killall"})
                     => ops.o[i].killed = Cardinality(ops.o[i].had)

\* The step in which TerminalBridge.attach is called for socket c.
AttachCalled(c) == conn[c].pc = "idle" /\ conn'[c].pc \in {"rej4409", "spawning"}

\* C18: when attach is called for a session id whose registered terminal has
\* an open WebSocket, the new socket is closed with 4409 and the map, every
\* terminal, every PTY and every other socket stay as they are; when the
\* registered terminal's WebSocket is closing or closed, that terminal is
\* cleaned up (removed from the map, its PTY sent a kill) and the attach goes
\* on to spawn and register; a rejected socket never gets a PTY.
C18_ExistingEntryRule ==
    /\ [](\A c \in Conns : conn[c].pc = "rej4409" => pty[c] = "none")
    /\ [][\A c \in Conns :
            AttachCalled(c) =>
               LET e == terminals[conn'[c].id] IN
                  /\ (e # 0 /\ ws[e] = "open")
                        => /\ conn'[c].pc = "rej4409"
                           /\ ws'[c] = "closing"
                           /\ terminals' = terminals /\ term' = term /\ pty' = pty
                           /\ \A d \in Conns \ {c} : ws'[d] = ws[d]
                  /\ (e # 0 /\ ws[e] \in {"closing", "closed"})
                        => /\ conn'[c].pc = "spawning"
                           /\ ws'[c] = "open"
                           /\ term'[e].cleanedUp /\ term'[e].kills = term[e].kills + 1
                           /\ terminals'[conn'[c].id] = 0]_vars

\* A socket was rejected with 4409 while the registered terminal of its
\* session id has an open socket and a live PTY.
C18_Witness ==
    \E c \in Conns :
        /\ conn[c].pc = "rej4409"
        /\ \E e \in Conns \ {c} :
              /\ terminals[conn[c].id] = e /\ ws[e] = "open" /\ pty[e] = "alive"
              /\ ~term[e].cleanedUp

\* An attach found the registered terminal's socket closing, cleaned that
\* terminal up and registered its own.
C18_StaleReplaced ==
    \E c \in Conns :
        /\ conn[c].pc = "attached" /\ terminals[conn[c].id] = c
        /\ \E e \in Conns \ {c} :
              /\ conn[e].id = conn[c].id /\ term[e].cleanedUp /\ ws[e] = "closing"

(***************************************************************************)
(* The input path of one attached terminal.                                *)
(***************************************************************************)
NextInput ==
    \/ \E p \in BinPayloads : InBinary(p)
    \/ \E t \in Texts : InText(t)

SpecInput == Init /\ [][NextInput]_vars

\* The payloads of the binary frames of q, in order.
BinaryOf(q) ==
    LET b == SelectSeq(q, LAMBDA f : f.binary) IN [k \in 1..Len(b) |-> b[k].data]

\* The <<cols, rows>> of the text frames of q that are JSON objects of type
\* "resize" with a non-zero cols and a non-zero rows, in order.
ResizesOf(q) ==
    LET t == SelectSeq(q, LAMBDA f : ~f.binary /\ f.text.valid /\ ~f.text.null
                                     /\ f.text.type = "resize"
                                     /\ f.text.hasCols /\ f.text.cols > 0
                                     /\ f.text.hasRows /\ f.text.rows > 0)
    IN  [k \in 1..Len(t) |-> <<t[k].text.cols, t[k].text.rows>>]

\* C19: what the PTY has been written is the payloads of the binary frames
\* received, unchanged and in arrival order, text frames adding nothing; the
\* pty.resize calls are those of the text frames that are JSON of type
\* "resize" with cols and rows, in order, and no other frame has an effect.
C19_InputSeparation ==
    /\ inp.written = BinaryOf(inp.frames)
    /\ inp.resized = ResizesOf(inp.frames)

(***************************************************************************)
(* The heartbeat of one attached terminal.                                 *)
(***************************************************************************)
NextHeartbeat ==
    \/ HbBeat
    \/ HbPong
    \/ HbClosing
    \/ HbClose

SpecHeartbeat == Init /\ [][NextHeartbeat]_vars

\* Seconds since the heartbeat was started, at the latest firing.
Elapsed == hb.beats * wsHeartbeat

\* C20: a socket whose client has answered no ping is no longer open once
\* wsHeartbeat * wsMaxMissedPongs seconds of heartbeat have passed.
C20_TerminatedWithinBound ==
    (hb.pongs = 0 /\ Elapsed >= wsHeartbeat * wsMaxMissedPongs) => hb.ws # "open"

(***************************************************************************)
(* Session views: the two GET routes, the periodic refresh and the bridge. *)
(***************************************************************************)
NextView ==
    \/ \E i \in Ops : GetArrive(i)
    \/ \E i \in Ops, id \in ParamIds : DetailArrive(i, id)
    \/ \E i \in Ops, fail \in BOOLEAN : OpListDone(i, fail)
    \/ RefreshStart
    \/ \E fail \in BOOLEAN : RefreshDone(fail)
    \/ \E c \in Conns, id \in Ids : BridgeAttach(c, id)
    \/ \E c \in Conns : BridgeSpawn(c)
    \/ \E c \in Conns : PtyExit(c)

\* The daemon starts with or without the window of the discovered session;
\* the session's last message has any role.
InitView ==
    /\ now = TickMs
    /\ stopped = FALSE
    /\ lastAttachTime = [i \in Ids |-> NoTime]
    /\ cachedSessions = {}
    /\ cacheExpiry = 0
    /\ lockHolder = [i \in Ids |-> 0]
    /\ windows \in SUBSET Discovered
    /\ req = [r \in Reqs |-> NoReq]
    /\ dupSpawn = FALSE
    /\ tokens = [t \in Reqs |-> NoToken]
    /\ consumed = [t \in Reqs |-> 0]
    /\ presented = [c \in Conns |-> 0]
    /\ conn = [c \in Conns |-> [pc |-> "idle", id |-> ""]]
    /\ ws = [c \in Conns |-> "none"]
    /\ terminals = [i \in Ids |-> 0]
    /\ term = [c \in Conns |-> NoTerm]
    /\ pty = [c \in Conns |-> "none"]
    /\ out = InitialOut
    /\ disc = IdleDisc
    /\ sse = InitialSse
    /\ \E role \in Roles : ops = [InitialOps EXCEPT !.role = role]
    /\ inp = InitialInp
    /\ hb = InitialHb
    /\ nsr = InitialNsr
    /\ cli = IdleCli

SpecView == InitView /\ [][NextView]_vars

\* Request i builds its views in this step.
ViewsBuilt(i) ==
    /\ ops.o[i].pc # "done"
    /\ ops'.o[i].pc = "done" /\ ops'.o[i].res = "200"
    /\ ops'.o[i].kind \in {"get", "detail"}

\* C21: at the step that builds a view, hasActiveConnection is true iff the
\* bridge's map holds an entry for the id, and tmuxStatus is the status of
\* the id in the mux manager's cached window list: none if absent, active if
\* listed as attached, detached if listed and not attached.
C21_ViewReflectsMapAndCache ==
    [][\A i \in Ops : ViewsBuilt(i) =>
          \A v \in ops'.o[i].body :
             /\ v.hasActiveConnection <=> (terminals'[v.id] # 0)
             /\ v.tmuxStatus = "none" <=> v.id \notin cachedSessions'
             /\ v.tmuxStatus = "active" <=> (v.id \in cachedSessions' /\ v.id \in ops'.catt)
             /\ v.tmuxStatus = "detached"
                   <=> (v.id \in cachedSessions' /\ v.id \notin ops'.catt)]_vars

\* One reply shows a session active and connected; another shows it with a
\* connection flag that differs from what its tmuxStatus would suggest.
C21_Witness ==
    \E i, j \in Ops :
        /\ \E v \in ops.o[i].body : v.tmuxStatus = "active" /\ v.hasActiveConnection
        /\ \E v \in ops.o[j].body : v.tmuxStatus # "active" /\ v.hasActiveConnection

\* The views of all replies sent so far.
AllViews == UNION {ops.o[i].body : i \in Ops}

\* C22: in every view claudeState is determined by lastMessageRole and
\* tmuxStatus: idle when tmuxStatus is none, whatever the role; otherwise
\* waiting for role assistant, thinking for role user, unknown for role
\* unknown. No view has tmuxStatus none with a claudeState other than idle.
C22_ClaudeStateTable ==
    \A v \in AllViews :
        /\ v.lastMessageRole \in Roles
        /\ v.tmuxStatus \in {"none", "detached", "active"}
        /\ v.tmuxStatus = "none" => v.claudeState = "idle"
        /\ (v.tmuxStatus # "none" /\ v.lastMessageRole = "assistant") => v.claudeState = "waiting"
        /\ (v.tmuxStatus # "none" /\ v.lastMessageRole = "user") => v.claudeState = "thinking"
        /\ (v.tmuxStatus # "none" /\ v.lastMessageRole = "unknown") => v.claudeState = "unknown"

\* A session whose last message is the assistant's was shown idle without a
\* window and waiting with one.
C22_Witness ==
    /\ \E v \in AllViews : v.lastMessageRole = "assistant" /\ v.tmuxStatus = "none"
                           /\ v.claudeState = "idle"
    /\ \E v \in AllViews : v.lastMessageRole = "assistant" /\ v.tmuxStatus = "active"
                           /\ v.claudeState = "waiting"

\* The other rows of the table: role user and role unknown, with a window.
C22_OtherRoles ==
    \E v \in AllViews : v.tmuxStatus = "detached" /\ v.claudeState \in {"thinking", "unknown"}

(***************************************************************************)
(* The new-session route.                                                  *)
(***************************************************************************)
NextNew ==
    \/ \E n \in News, body \in Bodies : NewArrive(n, body)
    \/ \E n \in News : NewStatDone(n)
    \/ \E n \in News : NewListDone(n)
    \/ \E n \in News, ok \in BOOLEAN : NewCreateDone(n, ok)
    \/ Tick

SpecNew == Init /\ [][NextNew]_vars

\* The body carries a non-empty string as projectPath.
HasPath(b) == b.given /\ b.string /\ b.path # <<>>

\* The resolved path is a configured root or lies below one.
UnderRoot(p) ==
    \E root \in RootDirs :
        /\ Len(Resolve(p)) >= Len(root)
        /\ \A k \in 1..Len(root) : Resolve(p)[k] = root[k]

\* C23: a window of POST /api/sessions/new exists, or a token was minted for
\* it, only if the request's projectPath is a string that resolves to a
\* configured root or below and names an existing directory; a request is
\* answered 400 iff the path is missing or no string, else 403 iff it
\* resolves outside every root, else 404 iff it is no directory, and 409
\* only after these three checks passed; a request answered with an error
\* has no window and no token.
C23_NewSessionChecks ==
    \A n \in News :
        LET b == nsr[n].body
            good == HasPath(b) /\ UnderRoot(b.path) /\ Resolve(b.path) \in Directories
        IN  /\ (NewIds[n] \in windows \/ nsr[n].token # "") => good
            /\ nsr[n].pc = "done" =>
                  /\ nsr[n].res = "400 INVALID_PATH" <=> ~HasPath(b)
                  /\ nsr[n].res = "403 FORBIDDEN" <=> (HasPath(b) /\ ~UnderRoot(b.path))
                  /\ nsr[n].res = "404 DIR_NOT_FOUND"
                        <=> (HasPath(b) /\ UnderRoot(b.path) /\ Resolve(b.path) \notin Directories)
                  /\ nsr[n].res = "409 MAX_SESSIONS" => good
                  /\ nsr[n].res # "200" => (NewIds[n] \notin windows /\ nsr[n].token = "")
                  /\ nsr[n].res = "200" => (NewIds[n] \in windows /\ nsr[n].token = NewIds[n])

\* One request created a window and got a token for a path that needed
\* resolving; the next was refused for capacity.
C23_Witness ==
    \E n, m \in News :
        /\ nsr[n].res = "200" /\ nsr[n].body.path # Resolve(nsr[n].body.path)
        /\ NewIds[n] \in windows
        /\ nsr[m].res = "409 MAX_SESSIONS"

\* C24: no state has a live spawned PTY whose WebSocket is closed and which
\* nothing will signal: such a PTY has been sent a termination signal, or
\* its terminal is still the map's entry for its session id, where the
\* reaper and stop find it.
C24_ClosedSocketPtySignalled ==
    \A c \in Conns :
        (conn[c].pc = "attached" /\ pty[c] = "alive" /\ ws[c] = "closed")
            => (term[c].kills > 0 \/ terminals[conn[c].id] = c)

\* An event of the socket or the PTY of the attached terminal c happens in
\* this step: close, error or exit.
LateEvent(c) ==
    /\ conn[c].pc = "attached" /\ conn'[c] = conn[c]
    /\ ws'[c] # ws[c] \/ pty'[c] # pty[c]

\* C25: a close, error or exit event of a terminal that is not the map's
\* entry for its session id leaves the registered terminal in the map,
\* unsignalled and otherwise untouched, with its PTY and socket as they were.
C25_StaleCleanupSparesCurrent ==
    [][\A c \in Conns : \A d \in Conns \ {c} :
          (LateEvent(c) /\ terminals[conn[c].id] = d)
              => /\ terminals'[conn[c].id] = d
                 /\ term'[d] = term[d]
                 /\ pty'[d] = pty[d]
                 /\ ws'[d] = ws[d]]_vars

\* A stale terminal was cleaned up by a reconnect and a late event of it has
\* called cleanup again; the new terminal is registered, alive, unsignalled.
C25_Witness ==
    \E c \in Conns : \E d \in Conns \ {c} :
        /\ conn[c].pc = "attached" /\ conn[d].pc = "attached" /\ conn[c].id = conn[d].id
        /\ term[c].cleanedUp /\ term[c].calls >= 2 /\ ws[c] = "closed"
        /\ terminals[conn[d].id] = d /\ pty[d] = "alive" /\ term[d].kills = 0

\* C26: once the PTY has exited, on a socket the client had not closed, no
\* chunk is left in the output buffer: the exit handler has sent every
\* pending chunk before it closed the socket, whatever the socket's buffered
\* amount was.
C26_ExitFlushesAll ==
    (out.pty = "exited" /\ ~out.hungUp) => out.buf = <<>>

\* C27: the buffered, not yet sent chunks total at most 1 MiB in every
\* state, and outputBufferSize is the sum of their lengths.
C27_BufferBounded ==
    /\ SumLen(out.buf) <= OUTPUT_BUFFER_MAX
    /\ out.size = SumLen(out.buf)

\* outputBufferSize is the sum of the lengths of the buffered chunks.
SizeIsSum == out.size = SumLen(out.buf)

\* A frame is sent in this step.
Sends == out'.sent # out.sent

\* A batch timer fires in this step and none is set in its place.
TimerFires ==
    /\ out'.timers < out.timers
    /\ out'.ws = out.ws /\ out'.pty = out.pty

\* C28: a frame is sent only on an open socket whose buffered amount is at
\* most 64 KiB, and it carries all pending chunks; chunks leave the buffer
\* only by being sent or by the eviction of onData, so a deferred flush drops
\* nothing; while chunks are pending on an open socket exactly one batch
\* timer is pending, and never more than one; a timer that fires with the
\* socket open and the buffered amount at most 64 KiB sends all pending
\* chunks as one frame.
C28_Backpressure ==
    /\ [](out.timers <= 1 /\ (out.timer <=> out.timers = 1))
    /\ []((out.buf # <<>> /\ out.ws = "open") => out.timers = 1)
    /\ [][/\ Sends => /\ out.ws = "open"
                      /\ out.buffered <= BACKPRESSURE_THRESHOLD
                      /\ out'.sent = out.sent \o Numbers(out.buf)
                      /\ out'.buf = <<>>
          /\ out'.buf # out.buf => (Sends \/ out'.log # out.log)
          /\ (TimerFires /\ out.buf # <<>> /\ out.ws = "open"
                /\ out.buffered <= BACKPRESSURE_THRESHOLD) => Sends]_vars

\* A flush was deferred by backpressure and, after the socket had drained, a
\* later flush sent the pending chunks.
C28_Witness ==
    /\ out.deferred /\ out.ws = "open" /\ out.pty = "alive"
    /\ out.buf = <<>> /\ out.timers = 0
    /\ Len(out.sent) >= 2 /\ out.evicted = {}

(***************************************************************************)
(* The heartbeat under every configured maximum of missed pongs.           *)
(***************************************************************************)
MaxMissedChoices == 0..wsMaxMissedPongs

InitHeartbeatAny ==
    /\ InitAttach
    /\ out = InitialOut
    /\ disc = IdleDisc
    /\ sse = InitialSse
    /\ ops = InitialOps
    /\ inp = InitialInp
    /\ \E m \in MaxMissedChoices : hb = [InitialHb EXCEPT !.max = m]
    /\ nsr = InitialNsr
    /\ cli = IdleCli

SpecHeartbeatAny == InitHeartbeatAny /\ [][NextHeartbeat]_vars

\* C29: a socket whose client has answered every ping before the next
\* firing of the interval is not terminated by the heartbeat, whatever the
\* configured maximum of missed pongs; a pong sets the missed counter to 0.
C29_PromptClientSurvives ==
    /\ [](~hb.overdue => hb.ws # "terminated")
    /\ [][hb'.pongs > hb.pongs => hb'.missedPongs = 0]_vars

\* A pong sets the missed counter to zero.
PongResets == [][hb'.pongs > hb.pongs => hb'.missedPongs = 0]_vars

\* With a maximum of at least 1, a prompt client is never terminated.
PromptSurvivesFromOne == (hb.max >= 1 /\ ~hb.overdue) => hb.ws # "terminated"

(***************************************************************************)
(* The three routes that take a session-id parameter.                      *)
(***************************************************************************)
NextValidate ==
    \/ \E r \in Reqs, id \in ParamIds : Arrive(r, id)
    \/ \E r \in Reqs : ExistDone(r)
    \/ \E r \in Reqs : AttachEnter(r)
    \/ \E r \in Reqs, running \in BOOLEAN : ProbeDone(r, running)
    \/ \E r \in Reqs : ListDone(r)
    \/ \E r \in Reqs : HasDone(r)
    \/ \E r \in Reqs, ok \in BOOLEAN : CreateDone(r, ok)
    \/ \E r \in Reqs : Mint(r)
    \/ \E i \in Ops, id \in ParamIds : KillArrive(i, id)
    \/ \E i \in Ops, id \in ParamIds : DetailArrive(i, id)
    \/ \E i \in Ops, fail \in BOOLEAN : OpListDone(i, fail)
    \/ \E i \in Ops : KillDone(i)

SpecValidate == Init /\ [][NextValidate]_vars

\* C12: a request of the attach, kill or detail route whose session-id
\* parameter is no canonical UUID is answered 400 at once: it is never in a
\* state where one of its subprocesses (list-sessions, pgrep, has-session,
\* new-session, kill-session) is running, it creates and kills no window,
\* and no window ever carries such an id.
C12_ValidationPrecedesSubprocess ==
    /\ \A r \in Reqs :
          (req[r].pc # "idle" /\ ~(req[r].id \in Ids))
             => (req[r].pc = "done" /\ req[r].res = "400" /\ ~req[r].spawned)
    /\ \A i \in Ops :
          (ops.o[i].kind \in {"kill", "detail"} /\ ~(ops.o[i].id \in Ids))
             => (ops.o[i].pc = "done" /\ ops.o[i].res = "400" /\ ops.o[i].hit = {})
    /\ windows \subseteq Ids

\* An attach, a kill and a detail request with a malformed id were rejected,
\* and a kill request with a well-formed id has killed its window.
C12_Witness ==
    /\ \E r \in Reqs : req[r].id = BadId /\ req[r].res = "400"
    /\ \E i, j \in Ops :
          /\ ops.o[i].id = BadId /\ ops.o[i].res = "400"
          /\ ops.o[j].kind = "kill" /\ ops.o[j].res = "existed:true"
    /\ \E r \in Reqs : req[r].spawned

====
